---- MODULE Spec2Model ----
(***************************************************************************)
(* Model of the tsk session (src/src/app.rs): the task forest addressed by *)
(* (selected_index, selected_path), and the commands that mutate it; the   *)
(* pomodoro timer, read against the clock `now`; and load_state, which     *)
(* restores both from a snapshot at startup.                               *)
(*                                                                         *)
(* Conventions.  Rust indices are 0-based and are kept 0-based here; a     *)
(* Vec element v[i] is the TLA+ sequence element v[i + 1].  An Option is a *)
(* sequence of length 0 (None) or 1 (Some).  A String is the sequence of   *)
(* its characters, kept as runs of equal characters; a character is named  *)
(* by a short string and has a UTF-8 width (Utf8Len), so that byte lengths *)
(* and byte slices are computed as the code computes them.  A panic ends   *)
(* the process: panicked becomes TRUE and no command is taken afterwards.  *)
(* A chrono Duration, and a reading of the clock, is an integer number of  *)
(* milliseconds.                                                           *)
(***************************************************************************)
EXTENDS Integers, Sequences, FiniteSets, TLC

VARIABLES
    tasks,           \* App.tasks: the root sequence of the forest
    selected_index,  \* App.selected_index
    selected_path,   \* App.selected_path
    next_task_id,    \* App.next_task_id
    pomodoro,        \* App.pomodoro: the PomodoroTimer
    theme_name,      \* App.theme_name
    now,             \* the clock: what Local::now() returns
    input_mode,      \* App.input_mode
    input_buffer,    \* App.input_buffer
    menu_selection,  \* App.menu_selection
    last_c_key_time, \* App.last_c_key_time
    save_notification_time,  \* App.save_notification_time
    state_json,      \* the file state.json of the config directory
    tasks_txt,       \* the file tasks.txt of the config directory
    pc,              \* where run_app is in its loop, or that it has returned
    event,           \* the event handle_input was given, and its saves
    presses,         \* the key presses this process has handled
    panicked,        \* the process has panicked (unwound out of the command)
    last             \* the last command: its name, argument, result, pre-state

vars == <<tasks, selected_index, selected_path, next_task_id, pomodoro,
          theme_name, now, input_mode, input_buffer, menu_selection,
          last_c_key_time, save_notification_time, state_json, tasks_txt,
          pc, event, presses, panicked, last>>

\* the fields of App that only the key dispatcher changes
ui_vars == <<input_mode, input_buffer, menu_selection, last_c_key_time,
             save_notification_time>>

\* the files
disk_vars == <<state_json, tasks_txt>>

\* what the commands of App and of its timer leave alone when they are
\* called on their own
shell_vars == <<ui_vars, disk_vars, pc, event, presses>>

(***************************************************************************)
(* Bounds of the exploration                                               *)
(***************************************************************************)
\* ids are allocated while next_task_id <= MaxId
MaxId == 4
\* SpecDeep: the most root tasks, and the most subtasks of one task
MaxDeepWidth == 1

\* SpecTimer: the clock runs to MaxClockMinutes minutes
MaxClockMinutes == 30
\* SpecTimer: the cycle count of the snapshots that vary the timer
MaxSavedCycles == 3

(***************************************************************************)
(* Program constants                                                       *)
(***************************************************************************)
\* app.rs:314/383  `trimmed.len() > 200`, `&trimmed[..200]`
TITLE_LIMIT == 200
\* app.rs:380  `path_len >= 4`
MAX_PATH_LEN == 4
\* stands for usize::MAX, the value 0usize - 1 wraps to when overflow checks
\* are off (app.rs:480); any value above every reachable node count
USIZE_MAX == 2147483647

\* app.rs:53/98, 101, 104  the minutes of a Work, ShortBreak, LongBreak phase
WORK_MINUTES == 25
SHORT_BREAK_MINUTES == 5
LONG_BREAK_MINUTES == 15
\* app.rs:155  `self.cycles.is_multiple_of(4)`
LONG_BREAK_EVERY == 4

\* two presses of 'c' less than this many milliseconds apart ask to clear
DOUBLE_C_MILLIS == 500

\* the save notification is hidden once this many whole seconds old
NOTIFICATION_SECONDS == 1

\* SpecDeep: ids are allocated while next_task_id <= MaxDeepId: as many as
\* the smallest forest with a node below the depth cap has nodes (a root
\* task, MAX_PATH_LEN levels of subtasks, and one more)
MaxDeepId == MAX_PATH_LEN + 2

(***************************************************************************)
(* Strings                                                                 *)
(***************************************************************************)
\* A String is the sequence of its characters, written as the sequence of
\* its runs: Run(c, n) is n >= 1 copies of the character c, and neighbouring
\* runs hold different characters.  "SP" is the ASCII space, "a" an ASCII
\* letter, "e2" a two-byte character (such as U+00E9).
Run(c, n) == [c |-> c, n |-> n]

Utf8Len(c) == IF c = "e2" THEN 2 ELSE 1

IsWhitespace(c) == c = "SP"

RECURSIVE TrimStart(_)
TrimStart(s) ==
    IF s # <<>> /\ IsWhitespace(Head(s).c) THEN TrimStart(Tail(s)) ELSE s

RECURSIVE TrimEnd(_)
TrimEnd(s) ==
    IF s # <<>> /\ IsWhitespace(s[Len(s)].c)
    THEN TrimEnd(SubSeq(s, 1, Len(s) - 1))
    ELSE s

\* str::trim
Trim(s) == TrimEnd(TrimStart(s))

\* str::len: the length in bytes
RECURSIVE ByteLen(_)
ByteLen(s) ==
    IF s = <<>> THEN 0
    ELSE Head(s).n * Utf8Len(Head(s).c) + ByteLen(Tail(s))

\* &s[..n]: Some(the prefix of n bytes), or None (a panic) when n is past
\* the end of s or byte n is not a character boundary of s
RECURSIVE SliceTo(_, _)
SliceTo(s, n) ==
    IF n = 0 THEN << <<>> >>
    ELSE IF s = <<>> THEN <<>>
    ELSE LET r == Head(s)
             w == Utf8Len(r.c)
         IN  IF n >= r.n * w
             THEN LET rest == SliceTo(Tail(s), n - r.n * w)
                  IN  IF rest = <<>> THEN <<>> ELSE << <<r>> \o rest[1] >>
             ELSE IF n % w = 0 THEN << <<Run(r.c, n \div w)>> >>
             ELSE <<>>

\* limited_title of add_task / add_subtask: Some(title), or None on a panic
LimitTitle(trimmed) ==
    IF ByteLen(trimmed) > TITLE_LIMIT
    THEN SliceTo(trimmed, TITLE_LIMIT)
    ELSE <<trimmed>>

(***************************************************************************)
(* Tasks                                                                   *)
(***************************************************************************)
\* mutant: a task numbered by the count of root tasks
NewTaskNumberedByLen(id, title) ==
    [id |-> Len(tasks) + 1, title |-> title, completed |-> FALSE,
     subtasks |-> <<>>]

\* Task::new
NewTask(id, title) ==
    [id |-> id, title |-> title, completed |-> FALSE, subtasks |-> <<>>]

\* mutant: the subtask is inserted before its siblings
push_subtask_first(task, subtask) ==
    [task EXCEPT !.subtasks = <<subtask>> \o @]

\* task.subtasks.push(subtask)
push_subtask(task, subtask) ==
    [task EXCEPT !.subtasks = Append(@, subtask)]

\* mutant: Vec::truncate(i) in place of Vec::remove(i)
RemoveAtTruncating(v, i) == SubSeq(v, 1, i)

\* Vec::remove(i) on an index in range
RemoveAt(v, i) == SubSeq(v, 1, i) \o SubSeq(v, i + 2, Len(v))

\* the walk of get_task_at_path / get_task_mut_at_path below the root task
RECURSIVE GetIn(_, _)
GetIn(task, path) ==
    IF path = <<>> THEN <<task>>
    ELSE IF path[1] >= Len(task.subtasks) THEN <<>>
    ELSE GetIn(task.subtasks[path[1] + 1], Tail(path))

\* get_task_at_path / get_task_mut_at_path: Some(task) or None
get_task_at_path(ts, si, path) ==
    IF si >= Len(ts) THEN <<>> ELSE GetIn(ts[si + 1], path)

\* the write through the &mut Task that get_task_mut_at_path returned
RECURSIVE SetIn(_, _, _)
SetIn(task, path, new) ==
    IF path = <<>> THEN new
    ELSE [task EXCEPT !.subtasks[path[1] + 1] = SetIn(@, Tail(path), new)]

set_task_at_path(ts, si, path, new) ==
    [ts EXCEPT ![si + 1] = SetIn(@, path, new)]

\* get_parent_path().unwrap_or_default()
get_parent_path(path) ==
    IF path = <<>> THEN <<>> ELSE SubSeq(path, 1, Len(path) - 1)

RECURSIVE SumSeq(_)
SumSeq(s) == IF s = <<>> THEN 0 ELSE Head(s) + SumSeq(Tail(s))

RECURSIVE count_all_items(_)
count_all_items(task) ==
    1 + SumSeq([i \in 1..Len(task.subtasks) |->
                    count_all_items(task.subtasks[i])])

total_items(ts) == SumSeq([i \in 1..Len(ts) |-> count_all_items(ts[i])])

\* mutant: every node of the subtree has its own flag flipped
RECURSIVE toggle_completion_flipping(_, _)
toggle_completion_flipping(task, new_state) ==
    [task EXCEPT
        !.completed = ~task.completed,
        !.subtasks = [i \in 1..Len(task.subtasks) |->
                        toggle_completion_flipping(task.subtasks[i], new_state)]]

RECURSIVE toggle_completion_recursive(_, _)
toggle_completion_recursive(task, new_state) ==
    [task EXCEPT
        !.completed = new_state,
        !.subtasks = [i \in 1..Len(task.subtasks) |->
                        toggle_completion_recursive(task.subtasks[i], new_state)]]

(***************************************************************************)
(* Selection                                                               *)
(***************************************************************************)
Sel(i, p) == [index |-> i, path |-> p]

\* mutant: the out-of-range index is not clamped
validate_selected_index_unclamped(ts, si, sp) ==
    IF ts = <<>> THEN Sel(0, <<>>) ELSE Sel(si, sp)

\* mutant: the out-of-range index is reset to the first root task
validate_selected_index_to_first(ts, si, sp) ==
    IF ts = <<>> THEN Sel(0, <<>>)
    ELSE IF si >= Len(ts) THEN Sel(0, <<>>)
    ELSE Sel(si, sp)

validate_selected_index(ts, si, sp) ==
    IF ts = <<>> THEN Sel(0, <<>>)
    ELSE IF si >= Len(ts) THEN Sel(Len(ts) - 1, <<>>)
    ELSE Sel(si, sp)

\* mutant: an earlier sibling counts as one item, whatever it holds
RECURSIVE FlatWalkCountingSiblings(_, _)
FlatWalkCountingSiblings(task, path) ==
    IF path = <<>> THEN <<0>>
    ELSE IF path[1] >= Len(task.subtasks) THEN <<>>
    ELSE LET rest == FlatWalkCountingSiblings(task.subtasks[path[1] + 1],
                                              Tail(path))
         IN  IF rest = <<>> THEN <<>> ELSE <<path[1] + 1 + rest[1]>>

\* the walk of get_flat_index below the root task: Some(count), or None when
\* `current.subtasks[p]` is out of range (a panic)
RECURSIVE FlatWalk(_, _)
FlatWalk(task, path) ==
    IF path = <<>> THEN <<0>>
    ELSE IF path[1] >= Len(task.subtasks) THEN <<>>
    ELSE LET before == SumSeq([i \in 1..path[1] |->
                                  count_all_items(task.subtasks[i])])
             rest == FlatWalk(task.subtasks[path[1] + 1], Tail(path))
         IN  IF rest = <<>> THEN <<>> ELSE <<before + 1 + rest[1]>>

\* get_flat_index: Some(flat index), or None on a panic (`self.tasks[i]` or
\* `current.subtasks[p]` out of range)
get_flat_index(ts, task_idx, path) ==
    IF task_idx > Len(ts) THEN <<>>
    ELSE LET base == SumSeq([i \in 1..task_idx |-> count_all_items(ts[i])])
         IN  IF task_idx = Len(ts) THEN <<base>>
             ELSE LET rest == FlatWalk(ts[task_idx + 1], path)
                  IN  IF rest = <<>> THEN <<>> ELSE <<base + rest[1]>>

\* find_in_subtasks, from the subtask of index k on: target is *target_flat,
\* decremented as the walk goes; the result carries the counter back
RECURSIVE find_in_subtasks(_, _, _, _)
find_in_subtasks(task, k, target, path) ==
    IF k >= Len(task.subtasks)
    THEN [found |-> FALSE, path |-> <<>>, target |-> target]
    ELSE IF target = 0
    THEN [found |-> TRUE, path |-> Append(path, k), target |-> 0]
    ELSE LET r == find_in_subtasks(task.subtasks[k + 1], 0, target - 1,
                                   Append(path, k))
         IN  IF r.found THEN r
             ELSE find_in_subtasks(task, k + 1, r.target, path)

\* find_item_at_flat_index, from the root task of index task_idx on:
\* Some(Sel) or None
RECURSIVE FindFrom(_, _, _)
FindFrom(ts, task_idx, target) ==
    IF task_idx >= Len(ts) THEN <<>>
    ELSE IF target = 0 THEN <<Sel(task_idx, <<>>)>>
    ELSE LET r == find_in_subtasks(ts[task_idx + 1], 0, target - 1, <<>>)
         IN  IF r.found THEN <<Sel(task_idx, r.path)>>
             ELSE FindFrom(ts, task_idx + 1, r.target)

\* mutant: only the root tasks are counted
find_item_among_roots(ts, target_flat) ==
    IF target_flat < Len(ts) THEN <<Sel(target_flat, <<>>)>> ELSE <<>>

find_item_at_flat_index(ts, target_flat) == FindFrom(ts, 0, target_flat)

\* the item move_selection_up finds from the flat index current_flat:
\* Some(Sel), or None when the selection is to stay
move_up_target(ts, current_flat) ==
    IF current_flat > 0
    THEN find_item_at_flat_index(ts, current_flat - 1)
    ELSE <<>>

\* mutant: past the last flat position the selection wraps to the first
move_down_target_wrapping(ts, current_flat, limit) ==
    IF current_flat < limit
    THEN find_item_at_flat_index(ts, current_flat + 1)
    ELSE find_item_at_flat_index(ts, 0)

\* the item move_selection_down finds from the flat index current_flat,
\* `total_items - 1` having the value limit
move_down_target(ts, current_flat, limit) ==
    IF current_flat < limit
    THEN find_item_at_flat_index(ts, current_flat + 1)
    ELSE <<>>

\* mutant: the new last index is never pushed, the selection goes to the
\* parent in every case
delete_repair_path_to_parent(path, parent_path, idx_to_remove, new_len) ==
    parent_path

\* the selection delete_selected_task leaves after parent.subtasks.remove(idx):
\* new_len is parent.subtasks.len() after the removal
delete_repair_path(path, parent_path, idx_to_remove, new_len) ==
    IF idx_to_remove >= new_len /\ new_len # 0
    THEN Append(parent_path, new_len - 1)
    ELSE IF new_len = 0 THEN parent_path
    ELSE SubSeq(path, 1, Len(path) - 1)

\* mutant: `path_len > 4`
depth_cap_reached_off_by_one(path) == Len(path) > MAX_PATH_LEN

\* `path_len >= 4` of add_subtask
depth_cap_reached(path) == Len(path) >= MAX_PATH_LEN

(***************************************************************************)
(* Timer                                                                   *)
(***************************************************************************)
\* Duration::seconds, Duration::minutes
Seconds(s) == s * 1000

Minutes(m) == Seconds(m * 60)

\* the integer quotient rounded towards zero, as Rust's `/` on i64
TruncDiv(a, b) == IF a >= 0 THEN a \div b ELSE -((-a) \div b)

\* Duration::num_seconds, Duration::num_minutes: whole units, towards zero
num_seconds(d) == TruncDiv(d, Seconds(1))

num_minutes(d) == TruncDiv(d, Minutes(1))

\* PomodoroTimer::new
PomodoroTimer_new ==
    [state |-> "Work", timer_state |-> "Stopped",
     duration |-> Minutes(WORK_MINUTES), remaining |-> Minutes(WORK_MINUTES),
     cycles |-> 0, start_time |-> <<>>]

\* mutant: the anchor is taken anew on every start
start_resetting_anchor(p, t) ==
    [p EXCEPT !.start_time = <<t>>, !.timer_state = "Running"]

\* PomodoroTimer::start at the clock reading t
start(p, t) ==
    [p EXCEPT !.start_time = IF p.timer_state \in {"Stopped", "Paused"}
                             THEN <<t>> ELSE @,
              !.timer_state = "Running"]

\* PomodoroTimer::pause at the clock reading t
pause(p, t) ==
    IF p.timer_state = "Running"
    THEN [p EXCEPT !.remaining = IF p.start_time # <<>>
                                 THEN @ - (t - p.start_time[1]) ELSE @,
                   !.timer_state = "Paused",
                   !.start_time = <<>>]
    ELSE p

\* mutant: a toggle that starts the timer whatever its run status
toggle_always_starting(p, t) ==
    [p EXCEPT !.start_time = <<t>>, !.timer_state = "Running"]

\* PomodoroTimer::toggle
toggle(p, t) ==
    IF p.timer_state \in {"Stopped", "Paused"} THEN start(p, t)
    ELSE pause(p, t)

\* PomodoroTimer::sync_duration_with_state
sync_duration_with_state(p) ==
    [p EXCEPT !.duration =
        CASE p.state = "Work" -> Minutes(WORK_MINUTES)
          [] p.state = "ShortBreak" -> Minutes(SHORT_BREAK_MINUTES)
          [] p.state = "LongBreak" -> Minutes(LONG_BREAK_MINUTES)]

\* PomodoroTimer::sync_state_with_duration
sync_state_with_duration(p) ==
    LET duration_minutes == num_minutes(p.duration) IN
    CASE duration_minutes = WORK_MINUTES -> [p EXCEPT !.state = "Work"]
      [] duration_minutes = SHORT_BREAK_MINUTES ->
            [p EXCEPT !.state = "ShortBreak"]
      [] duration_minutes = LONG_BREAK_MINUTES ->
            [p EXCEPT !.state = "LongBreak"]
      [] OTHER -> sync_duration_with_state(p)

\* mutant: a reset that also forgets the completed cycles
reset_clearing_cycles(p) ==
    LET synced == sync_state_with_duration(sync_duration_with_state(p))
    IN  [synced EXCEPT !.timer_state = "Stopped", !.start_time = <<>>,
                       !.remaining = synced.duration, !.cycles = 0]

\* mutant: remaining is left as it was
reset_keeping_remaining(p) ==
    LET synced == sync_state_with_duration(sync_duration_with_state(p))
    IN  [synced EXCEPT !.timer_state = "Stopped", !.start_time = <<>>]

\* PomodoroTimer::reset
reset(p) ==
    LET synced == sync_state_with_duration(sync_duration_with_state(p))
    IN  [synced EXCEPT !.timer_state = "Stopped",
                       !.start_time = <<>>,
                       !.remaining = synced.duration]

\* mutant: the long break is chosen by the count before the increment
advance_cycle_counting_late(p) ==
    LET next ==
            IF p.state = "Work"
            THEN IF p.cycles % LONG_BREAK_EVERY = 0
                 THEN [p EXCEPT !.cycles = @ + 1,
                                !.state = "LongBreak",
                                !.duration = Minutes(LONG_BREAK_MINUTES)]
                 ELSE [p EXCEPT !.cycles = @ + 1,
                                !.state = "ShortBreak",
                                !.duration = Minutes(SHORT_BREAK_MINUTES)]
            ELSE [p EXCEPT !.state = "Work",
                           !.duration = Minutes(WORK_MINUTES)]
    IN  [next EXCEPT !.remaining = next.duration, !.start_time = <<>>]

\* mutant: the long break keeps the duration of a short one
advance_cycle_short_long_break(p) ==
    LET next ==
            IF p.state = "Work"
            THEN [p EXCEPT !.cycles = @ + 1,
                           !.state = IF (p.cycles + 1) % LONG_BREAK_EVERY = 0
                                     THEN "LongBreak" ELSE "ShortBreak",
                           !.duration = Minutes(SHORT_BREAK_MINUTES)]
            ELSE [p EXCEPT !.state = "Work",
                           !.duration = Minutes(WORK_MINUTES)]
    IN  [next EXCEPT !.remaining = next.duration, !.start_time = <<>>]

\* PomodoroTimer::advance_cycle
advance_cycle(p) ==
    LET next ==
            IF p.state = "Work"
            THEN IF (p.cycles + 1) % LONG_BREAK_EVERY = 0
                 THEN [p EXCEPT !.cycles = @ + 1,
                                !.state = "LongBreak",
                                !.duration = Minutes(LONG_BREAK_MINUTES)]
                 ELSE [p EXCEPT !.cycles = @ + 1,
                                !.state = "ShortBreak",
                                !.duration = Minutes(SHORT_BREAK_MINUTES)]
            ELSE [p EXCEPT !.state = "Work",
                           !.duration = Minutes(WORK_MINUTES)]
    IN  [next EXCEPT !.remaining = next.duration, !.start_time = <<>>]

\* mutant: the phase completes only once the deadline has passed
update_after_deadline(p, t) ==
    IF p.timer_state # "Running" THEN [pomodoro |-> p, ret |-> FALSE]
    ELSE IF p.start_time # <<>> /\ t - p.start_time[1] > p.remaining
    THEN [pomodoro |-> advance_cycle([p EXCEPT !.remaining = 0,
                                               !.timer_state = "Stopped"]),
          ret |-> TRUE]
    ELSE [pomodoro |-> p, ret |-> FALSE]

\* PomodoroTimer::update at the clock reading t: the timer afterwards, and
\* the value returned
update(p, t) ==
    IF p.timer_state # "Running" THEN [pomodoro |-> p, ret |-> FALSE]
    ELSE IF p.start_time # <<>> /\ t - p.start_time[1] >= p.remaining
    THEN [pomodoro |-> advance_cycle([p EXCEPT !.remaining = 0,
                                               !.timer_state = "Stopped"]),
          ret |-> TRUE]
    ELSE [pomodoro |-> p, ret |-> FALSE]

\* i64::max
Max(a, b) == IF a >= b THEN a ELSE b

\* PomodoroTimer::get_remaining_seconds at the clock reading t
get_remaining_seconds(p, t) ==
    IF p.timer_state = "Running" /\ p.start_time # <<>>
    THEN Max(num_seconds(p.remaining - (t - p.start_time[1])), 0)
    ELSE num_seconds(p.remaining)

(***************************************************************************)
(* Commands                                                                *)
(***************************************************************************)
\* the titles the commands are given: empty, blank, padded, and a title of
\* 201 bytes whose byte 200 falls inside a two-byte character
BlankTitle == <<Run("SP", 2)>>

PaddedTitle == <<Run("SP", 1), Run("a", 1), Run("SP", 1)>>

PanicTitle == <<Run("a", 1), Run("e2", TITLE_LIMIT \div 2)>>

Titles == { <<>>, BlankTitle, PaddedTitle, PanicTitle }

\* InputMode: a variant without a field, and AddingSubtask(parent_id)
Mode(kind) == [kind |-> kind, parent_id |-> <<>>]

AddingSubtask(parent_id) == [kind |-> "AddingSubtask", parent_id |-> <<parent_id>>]

\* state.json: absent, not a SavedState, or a SavedState
MissingFile == [kind |-> "missing", state |-> <<>>]

InvalidFile == [kind |-> "invalid", state |-> <<>>]

StateFile(s) == [kind |-> "state", state |-> <<s>>]

\* what handle_input was given in this iteration of the loop: the key, the
\* input mode it found, the results of the save_state and save_tasks_to_txt
\* calls it made, in order, and what it returned
Handled(key, saves, txts, ret) ==
    [key |-> key, input_mode |-> input_mode, save_state |-> saves,
     save_tasks_to_txt |-> txts, ret |-> ret]

Cmd(op, title, ret) ==
    [op |-> op, title |-> title, ret |-> ret,
     tasks |-> tasks, index |-> selected_index, path |-> selected_path,
     next_id |-> next_task_id, pomodoro |-> pomodoro,
     theme_name |-> theme_name, now |-> now, snapshot |-> <<>>]

Init ==
    /\ tasks = <<>>
    /\ selected_index = 0
    /\ selected_path = <<>>
    /\ next_task_id = 1
    /\ pomodoro = PomodoroTimer_new
    /\ theme_name = "Default"
    /\ now = 0
    /\ input_mode = Mode("Normal")
    /\ input_buffer = <<>>
    /\ menu_selection = 0
    /\ last_c_key_time = <<>>
    /\ save_notification_time = <<>>
    /\ state_json = MissingFile
    /\ tasks_txt = <<>>
    /\ pc = "main"
    /\ event = Handled("none", <<>>, <<>>, "false")
    /\ presses = 0
    /\ panicked = FALSE
    /\ last = Cmd("new", <<>>, "unit")

Panic(op, title) ==
    /\ panicked' = TRUE
    /\ last' = Cmd(op, title, "panic")

Select(s) ==
    /\ selected_index' = s.index
    /\ selected_path' = s.path

add_task(title, max_id) ==
    /\ ~panicked
    /\ UNCHANGED <<pomodoro, theme_name, now>>
    /\ LET trimmed == Trim(title) IN
       IF trimmed = <<>>
       THEN /\ last' = Cmd("add_task", title, "false")
            /\ UNCHANGED <<tasks, selected_index, selected_path,
                           next_task_id, panicked>>
       ELSE LET limited_title == LimitTitle(trimmed) IN
            IF limited_title = <<>>
            THEN /\ Panic("add_task", title)
                 /\ UNCHANGED <<tasks, selected_index, selected_path,
                                next_task_id>>
            ELSE /\ next_task_id <= max_id
                 /\ tasks' = Append(tasks,
                                    NewTask(next_task_id, limited_title[1]))
                 /\ next_task_id' = next_task_id + 1
                 /\ Select(validate_selected_index(tasks', selected_index,
                                                   selected_path))
                 /\ last' = Cmd("add_task", title, "true")
                 /\ UNCHANGED panicked

add_subtask(title, max_id) ==
    /\ ~panicked
    /\ UNCHANGED <<pomodoro, theme_name, now>>
    /\ LET trimmed == Trim(title) IN
       IF trimmed = <<>> \/ depth_cap_reached(selected_path)
       THEN /\ last' = Cmd("add_subtask", title, "false")
            /\ UNCHANGED <<tasks, selected_index, selected_path,
                           next_task_id, panicked>>
       ELSE LET limited_title == LimitTitle(trimmed) IN
            IF limited_title = <<>>
            THEN /\ Panic("add_subtask", title)
                 /\ UNCHANGED <<tasks, selected_index, selected_path,
                                next_task_id>>
            ELSE LET task == get_task_at_path(tasks, selected_index,
                                              selected_path)
                 IN  /\ next_task_id <= max_id
                     /\ next_task_id' = next_task_id + 1
                     /\ IF task # <<>>
                        THEN /\ tasks' = set_task_at_path(
                                    tasks, selected_index, selected_path,
                                    push_subtask(task[1],
                                        NewTask(next_task_id,
                                                limited_title[1])))
                             /\ last' = Cmd("add_subtask", title, "true")
                        ELSE /\ tasks' = tasks
                             /\ last' = Cmd("add_subtask", title, "false")
                     /\ UNCHANGED <<selected_index, selected_path, panicked>>

toggle_task_completion ==
    /\ ~panicked
    /\ UNCHANGED <<pomodoro, theme_name, now>>
    /\ LET task == get_task_at_path(tasks, selected_index, selected_path) IN
       IF task # <<>>
       THEN tasks' = set_task_at_path(
                tasks, selected_index, selected_path,
                toggle_completion_recursive(task[1], ~task[1].completed))
       ELSE tasks' = tasks
    /\ last' = Cmd("toggle_task_completion", <<>>, "unit")
    /\ UNCHANGED <<selected_index, selected_path, next_task_id, panicked>>

move_selection_up ==
    /\ ~panicked
    /\ UNCHANGED <<pomodoro, theme_name, now>>
    /\ LET current_flat == get_flat_index(tasks, selected_index,
                                          selected_path) IN
       IF current_flat = <<>>
       THEN /\ Panic("move_selection_up", <<>>)
            /\ UNCHANGED <<selected_index, selected_path>>
       ELSE /\ LET found == move_up_target(tasks, current_flat[1])
               IN  IF found # <<>> THEN Select(found[1])
                   ELSE UNCHANGED <<selected_index, selected_path>>
            /\ last' = Cmd("move_selection_up", <<>>, "unit")
            /\ UNCHANGED panicked
    /\ UNCHANGED <<tasks, next_task_id>>

\* move_selection_down once `total_items - 1` has the value limit
MoveDownTo(current_flat, limit) ==
    /\ LET found == move_down_target(tasks, current_flat, limit)
       IN  IF found # <<>> THEN Select(found[1])
           ELSE UNCHANGED <<selected_index, selected_path>>
    /\ last' = Cmd("move_selection_down", <<>>, "unit")
    /\ UNCHANGED panicked

move_selection_down ==
    /\ ~panicked
    /\ UNCHANGED <<pomodoro, theme_name, now>>
    /\ LET current_flat == get_flat_index(tasks, selected_index,
                                          selected_path)
           total == total_items(tasks)
       IN  IF current_flat = <<>>
           THEN /\ Panic("move_selection_down", <<>>)
                /\ UNCHANGED <<selected_index, selected_path>>
           ELSE IF total = 0
           THEN \* `total_items - 1` overflows: a panic with overflow checks
                \* on (debug builds), usize::MAX with them off (release)
                \/ /\ Panic("move_selection_down", <<>>)
                   /\ UNCHANGED <<selected_index, selected_path>>
                \/ MoveDownTo(current_flat[1], USIZE_MAX)
           ELSE MoveDownTo(current_flat[1], total - 1)
    /\ UNCHANGED <<tasks, next_task_id>>

delete_selected_task ==
    /\ ~panicked
    /\ UNCHANGED <<pomodoro, theme_name, now>>
    /\ IF selected_path = <<>>
       THEN IF tasks # <<>>
            THEN IF selected_index >= Len(tasks)
                 THEN \* Vec::remove out of range
                      /\ Panic("delete_selected_task", <<>>)
                      /\ UNCHANGED <<tasks, selected_index, selected_path>>
                 ELSE /\ tasks' = RemoveAt(tasks, selected_index)
                      /\ Select(validate_selected_index(
                                    tasks', selected_index, selected_path))
                      /\ last' = Cmd("delete_selected_task", <<>>, "unit")
                      /\ UNCHANGED panicked
            ELSE /\ last' = Cmd("delete_selected_task", <<>>, "unit")
                 /\ UNCHANGED <<tasks, selected_index, selected_path,
                                panicked>>
       ELSE LET parent_path == get_parent_path(selected_path)
                idx_to_remove == selected_path[Len(selected_path)]
                parent == get_task_at_path(tasks, selected_index, parent_path)
            IN  /\ IF parent # <<>>
                   THEN IF idx_to_remove < Len(parent[1].subtasks)
                        THEN LET subtasks == RemoveAt(parent[1].subtasks,
                                                      idx_to_remove)
                             IN  /\ tasks' = set_task_at_path(
                                        tasks, selected_index, parent_path,
                                        [parent[1] EXCEPT
                                            !.subtasks = subtasks])
                                 /\ selected_path' = delete_repair_path(
                                        selected_path, parent_path,
                                        idx_to_remove, Len(subtasks))
                                 /\ UNCHANGED selected_index
                        ELSE UNCHANGED <<tasks, selected_index,
                                         selected_path>>
                   ELSE /\ tasks' = tasks
                        /\ Select(validate_selected_index(
                                      tasks, selected_index, <<>>))
                /\ last' = Cmd("delete_selected_task", <<>>, "unit")
                /\ UNCHANGED panicked
    /\ UNCHANGED next_task_id

\* mutant: the id counter starts again with the forest
clear_all_tasks_restarting_ids ==
    /\ ~panicked
    /\ UNCHANGED <<pomodoro, theme_name, now>>
    /\ tasks' = <<>>
    /\ selected_index' = 0
    /\ selected_path' = <<>>
    /\ next_task_id' = 1
    /\ last' = Cmd("clear_all_tasks", <<>>, "unit")
    /\ UNCHANGED panicked

clear_all_tasks ==
    /\ ~panicked
    /\ UNCHANGED <<pomodoro, theme_name, now>>
    /\ tasks' = <<>>
    /\ selected_index' = 0
    /\ selected_path' = <<>>
    /\ last' = Cmd("clear_all_tasks", <<>>, "unit")
    /\ UNCHANGED <<next_task_id, panicked>>

Next ==
    \/ /\ UNCHANGED shell_vars
       /\ \E title \in Titles : add_task(title, MaxId)
    \/ /\ UNCHANGED shell_vars
       /\ \E title \in Titles : add_subtask(title, MaxId)
    \/ /\ UNCHANGED shell_vars
       /\ toggle_task_completion
    \/ /\ UNCHANGED shell_vars
       /\ move_selection_up
    \/ /\ UNCHANGED shell_vars
       /\ move_selection_down
    \/ /\ UNCHANGED shell_vars
       /\ delete_selected_task
    \/ /\ UNCHANGED shell_vars
       /\ clear_all_tasks

Spec == Init /\ [][Next]_vars

\* The same commands on narrow forests: a root task is added while the forest
\* has fewer than MaxDeepWidth of them, a subtask while the selected task has
\* fewer than MaxDeepWidth, and ids are allocated up to MaxDeepId, so that
\* the forest can grow to the depth cap and beyond.
Narrow(siblings) == Len(siblings) < MaxDeepWidth

SelectedSubtasks ==
    LET task == get_task_at_path(tasks, selected_index, selected_path)
    IN  IF task = <<>> THEN <<>> ELSE task[1].subtasks

DeepTitles == { BlankTitle, PaddedTitle }

NextDeep ==
    \/ /\ UNCHANGED shell_vars
       /\ \E title \in DeepTitles : Narrow(tasks) /\ add_task(title, MaxDeepId)
    \/ /\ UNCHANGED shell_vars
       /\ \E title \in DeepTitles :
               Narrow(SelectedSubtasks) /\ add_subtask(title, MaxDeepId)
    \/ /\ UNCHANGED shell_vars
       /\ toggle_task_completion
    \/ /\ UNCHANGED shell_vars
       /\ move_selection_up
    \/ /\ UNCHANGED shell_vars
       /\ move_selection_down
    \/ /\ UNCHANGED shell_vars
       /\ delete_selected_task
    \/ /\ UNCHANGED shell_vars
       /\ clear_all_tasks

SpecDeep == Init /\ [][NextDeep]_vars

(***************************************************************************)
(* Startup and timer commands                                              *)
(***************************************************************************)
\* the variants of ThemeName, as `{:?}` writes them
ThemeNames ==
    {"Default", "Dark", "Light", "Monochrome", "Ocean", "BlueRidge", "Dotrb",
     "Everforest", "Mars", "TokyoNight", "Vesper"}

\* mutant: the stored remaining is taken whatever its sign
restore_pomodoro_unchecked(p, state) ==
    LET named ==
            [p EXCEPT !.cycles = state.pomodoro_cycles,
                      !.state = IF state.pomodoro_state
                                    \in {"Work", "ShortBreak", "LongBreak"}
                                THEN state.pomodoro_state ELSE "Work",
                      !.timer_state =
                            IF state.pomodoro_timer_state
                                \in {"Stopped", "Running", "Paused"}
                            THEN state.pomodoro_timer_state ELSE "Stopped",
                      !.remaining =
                            Seconds(state.pomodoro_remaining_seconds)]
    IN  sync_state_with_duration(sync_duration_with_state(named))

\* the pomodoro fields of load_state: cycles, state and timer_state from
\* their strings, remaining (or a reset), then duration and state inferred
\* from the minutes remaining
restore_pomodoro(p, state) ==
    LET named ==
            [p EXCEPT !.cycles = state.pomodoro_cycles,
                      !.state = IF state.pomodoro_state
                                    \in {"Work", "ShortBreak", "LongBreak"}
                                THEN state.pomodoro_state ELSE "Work",
                      !.timer_state =
                            IF state.pomodoro_timer_state
                                \in {"Stopped", "Running", "Paused"}
                            THEN state.pomodoro_timer_state ELSE "Stopped"]
        timed ==
            IF state.pomodoro_remaining_seconds >= 0
            THEN [named EXCEPT !.remaining =
                                    Seconds(state.pomodoro_remaining_seconds)]
            ELSE reset(named)
        remaining_minutes == num_minutes(timed.remaining)
    IN  CASE remaining_minutes = WORK_MINUTES ->
                [timed EXCEPT !.duration = Minutes(WORK_MINUTES),
                              !.state = "Work"]
          [] remaining_minutes = SHORT_BREAK_MINUTES ->
                [timed EXCEPT !.duration = Minutes(SHORT_BREAK_MINUTES),
                              !.state = "ShortBreak"]
          [] remaining_minutes = LONG_BREAK_MINUTES ->
                [timed EXCEPT !.duration = Minutes(LONG_BREAK_MINUTES),
                              !.state = "LongBreak"]
          [] OTHER ->
                sync_state_with_duration(sync_duration_with_state(timed))

\* self.tasks.iter().map(|t| t.id).max().unwrap_or(0)
RECURSIVE MaxRootId(_)
MaxRootId(ts) ==
    IF ts = <<>> THEN 0 ELSE Max(Head(ts).id, MaxRootId(Tail(ts)))

\* next_task_id of load_state
restore_next_task_id(state) ==
    IF state.next_task_id = 0
    THEN Max(1, MaxRootId(state.tasks) + 1)
    ELSE state.next_task_id

\* theme_name of load_state
restore_theme_name(current, state) ==
    IF state.theme = <<>> THEN current
    ELSE IF state.theme[1] \in ThemeNames THEN state.theme[1]
    ELSE "Default"

\* a task of a snapshot
SavedTask(id, subtasks) ==
    [id |-> id, title |-> <<Run("a", 1)>>, completed |-> FALSE,
     subtasks |-> subtasks]

\* the forests of the snapshots: none; a task with a subtask, as a session
\* numbers them; a subtask of a greater id than any root task; two root
\* tasks in decreasing id order
SavedForests ==
    { <<>>,
      <<SavedTask(1, <<SavedTask(2, <<>>)>>)>>,
      <<SavedTask(1, <<SavedTask(5, <<>>)>>)>>,
      <<SavedTask(3, <<>>), SavedTask(2, <<>>)>> }

\* the snapshots that parse as a SavedState: those that vary the forest,
\* the id counter and the theme, and those that vary the timer
SavedStates ==
    [tasks : SavedForests,
     pomodoro_cycles : {0},
     pomodoro_state : {"Work"},
     pomodoro_timer_state : {"Stopped"},
     pomodoro_remaining_seconds : {WORK_MINUTES * 60},
     next_task_id : {0, 1, 3, 6},
     theme : {<<>>, <<"Dark">>, <<"Solarized">>}]
    \cup
    [tasks : {<<SavedTask(1, <<SavedTask(2, <<>>)>>)>>},
     pomodoro_cycles : {MaxSavedCycles},
     pomodoro_state : {"Work", "ShortBreak", "LongBreak", "Rest"},
     pomodoro_timer_state : {"Stopped", "Running", "Paused", "Halted"},
     pomodoro_remaining_seconds :
        {-5, SHORT_BREAK_MINUTES * 60 + 30, WORK_MINUTES * 60},
     next_task_id : {3},
     theme : {<<"Default">>}]

\* what load_state finds at state.json: no file, a file that does not parse
\* as a SavedState, or a snapshot
Files == {MissingFile, InvalidFile} \cup { StateFile(s) : s \in SavedStates }

\* main has constructed the App and is about to call load_state
AtStartup == last.op = "new"

Loaded(file, ret) ==
    [Cmd("load_state", <<>>, ret) EXCEPT !.snapshot = file.state]

\* App::load_state, as main calls it on the App just constructed
load_state(file) ==
    /\ ~panicked
    /\ AtStartup
    /\ IF file.kind = "state"
       THEN LET state == file.state[1] IN
            /\ tasks' = state.tasks
            /\ pomodoro' = restore_pomodoro(pomodoro, state)
            /\ next_task_id' = restore_next_task_id(state)
            /\ theme_name' = restore_theme_name(theme_name, state)
            /\ Select(validate_selected_index(tasks', selected_index,
                                              selected_path))
            /\ last' = Loaded(file, "ok")
       ELSE /\ last' = Loaded(file, IF file.kind = "missing"
                                    THEN "ok" ELSE "err")
            /\ UNCHANGED <<tasks, selected_index, selected_path,
                           next_task_id, pomodoro, theme_name>>
    /\ UNCHANGED <<now, panicked>>

\* a command on app.pomodoro that changes the timer to p and returns ret
TimerCmd(op, p, ret) ==
    /\ ~panicked
    /\ ~AtStartup
    /\ pomodoro' = p
    /\ last' = Cmd(op, <<>>, ret)
    /\ UNCHANGED <<tasks, selected_index, selected_path, next_task_id,
                   theme_name, now, panicked>>

pomodoro_start == TimerCmd("start", start(pomodoro, now), "unit")

pomodoro_pause == TimerCmd("pause", pause(pomodoro, now), "unit")

pomodoro_toggle == TimerCmd("toggle", toggle(pomodoro, now), "unit")

pomodoro_reset == TimerCmd("reset", reset(pomodoro), "unit")

pomodoro_update ==
    LET updated == update(pomodoro, now)
    IN  TimerCmd("update", updated.pomodoro,
                 IF updated.ret THEN "true" ELSE "false")

\* the clock advances
Advances == {Minutes(5) - 500, Minutes(5), Minutes(25)}

Tick(d) ==
    /\ ~panicked
    /\ ~AtStartup
    /\ now + d <= Minutes(MaxClockMinutes)
    /\ now' = now + d
    /\ last' = Cmd("tick", <<>>, "unit")
    /\ UNCHANGED <<tasks, selected_index, selected_path, next_task_id,
                   pomodoro, theme_name, panicked>>

\* A session from startup: load_state, then the timer commands,
\* move_selection_down and clear_all_tasks in any order while the clock
\* advances
NextTimer ==
    \/ /\ UNCHANGED shell_vars
       /\ \E file \in Files : load_state(file)
    \/ /\ UNCHANGED shell_vars
       /\ pomodoro_start
    \/ /\ UNCHANGED shell_vars
       /\ pomodoro_pause
    \/ /\ UNCHANGED shell_vars
       /\ pomodoro_toggle
    \/ /\ UNCHANGED shell_vars
       /\ pomodoro_reset
    \/ /\ UNCHANGED shell_vars
       /\ pomodoro_update
    \/ /\ UNCHANGED shell_vars
       /\ \E d \in Advances : Tick(d)
    \/ /\ UNCHANGED shell_vars
       /\ ~AtStartup /\ move_selection_down
    \/ /\ UNCHANGED shell_vars
       /\ ~AtStartup /\ clear_all_tasks

SpecTimer == Init /\ [][NextTimer]_vars

(***************************************************************************)
(* Saving, and the next launch                                             *)
(***************************************************************************)
\* the SavedState save_state builds at the clock reading t; `{:?}` writes a
\* phase, a run status and a theme as the name of the variant
saved_state(t) ==
    [tasks |-> tasks,
     pomodoro_cycles |-> pomodoro.cycles,
     pomodoro_state |-> pomodoro.state,
     pomodoro_timer_state |-> pomodoro.timer_state,
     pomodoro_remaining_seconds |-> get_remaining_seconds(pomodoro, t),
     next_task_id |-> next_task_id,
     theme |-> <<theme_name>>]

\* what save_state does to state.json: ok when the config directory is
\* found and made and the file written, and otherwise an error that leaves
\* the file as it was
WriteState(ok) ==
    state_json' = IF ok THEN StateFile(saved_state(now)) ELSE state_json

\* App::save_state, called on its own
save_state(ok) ==
    /\ ~panicked
    /\ ~AtStartup
    /\ WriteState(ok)
    /\ last' = Cmd("save_state", <<>>, IF ok THEN "ok" ELSE "err")
    /\ UNCHANGED <<tasks, selected_index, selected_path, next_task_id,
                   pomodoro, theme_name, now, panicked>>

\* the process ends (it has quit, or panicked, or is killed) and the program
\* is launched again: main constructs a new App; the files and the clock
\* are where they were
relaunch ==
    /\ ~AtStartup
    /\ tasks' = <<>>
    /\ selected_index' = 0
    /\ selected_path' = <<>>
    /\ next_task_id' = 1
    /\ pomodoro' = PomodoroTimer_new
    /\ theme_name' = "Default"
    /\ panicked' = FALSE
    /\ last' = [Cmd("new", <<>>, "unit") EXCEPT
                    !.tasks = <<>>, !.index = 0, !.path = <<>>,
                    !.next_id = 1, !.pomodoro = PomodoroTimer_new,
                    !.theme_name = "Default"]
    /\ UNCHANGED now

\* Sessions one after the other: load_state of the state.json found, the
\* timer commands while the clock advances, save_state, and the next launch
NextSave ==
    \/ /\ UNCHANGED shell_vars
       /\ load_state(state_json)
    \/ /\ UNCHANGED shell_vars
       /\ pomodoro_start
    \/ /\ UNCHANGED shell_vars
       /\ pomodoro_pause
    \/ /\ UNCHANGED shell_vars
       /\ pomodoro_reset
    \/ /\ UNCHANGED shell_vars
       /\ pomodoro_update
    \/ /\ UNCHANGED shell_vars
       /\ \E d \in Advances : Tick(d)
    \/ /\ UNCHANGED <<ui_vars, tasks_txt, pc, event, presses>>
       /\ \E ok \in BOOLEAN : save_state(ok)
    \/ /\ UNCHANGED shell_vars
       /\ relaunch

SpecSave == Init /\ [][NextSave]_vars

(***************************************************************************)
(* The key dispatcher and the main loop                                    *)
(***************************************************************************)
\* ids the sessions of the main loop may hand out, and characters the input
\* buffer may hold
MaxLoopId == 2

MaxInputLen == 1

\* key presses a process handles before its user only watches or quits
MaxPresses == 6

\* the key events handle_input is given: a pressed key by its KeyCode
\* ("Ctrl-c" is Char('c') with the CONTROL modifier, "SP" the space bar, "z"
\* a letter no handler names), "release" a key event that is not a press,
\* "none" a poll that times out after 50 ms, "io_error" a poll or read that
\* fails
Keys ==
    {"q", "a", "s", "x", "k", "Up", "j", "Down", "p", "r", "t", "w", "c",
     "y", "Y", "n", "N", "z", "SP", "Esc", "Enter", "Backspace", "Ctrl-c",
     "release", "none", "io_error"}

\* the keys with KeyCode::Char(c), and the character each types
CharKeys ==
    {"q", "a", "s", "x", "k", "j", "p", "r", "t", "w", "c", "y", "Y", "n",
     "N", "z", "SP"}

CharOf(key) == IF key = "SP" THEN "SP" ELSE "a"

\* String::push
push(s, c) ==
    IF s # <<>> /\ s[Len(s)].c = c
    THEN [s EXCEPT ![Len(s)].n = @ + 1]
    ELSE Append(s, Run(c, 1))

\* String::pop
pop(s) ==
    IF s = <<>> THEN s
    ELSE IF s[Len(s)].n > 1 THEN [s EXCEPT ![Len(s)].n = @ - 1]
    ELSE SubSeq(s, 1, Len(s) - 1)

\* the characters of a String
chars_count(s) == SumSeq([i \in 1..Len(s) |-> s[i].n])

get_menu_options ==
    <<"Close Menu", "Reset Pomodoro", "Save Tasks", "Clear All Tasks",
      "Change Theme", "Quit">>

move_menu_selection_up(selection) ==
    IF selection > 0 THEN selection - 1 ELSE Len(get_menu_options) - 1

move_menu_selection_down(selection) ==
    IF selection < Len(get_menu_options) - 1 THEN selection + 1 ELSE 0

\* the match of cycle_theme
next_theme(name) ==
    CASE name = "Default" -> "Dark"
      [] name = "Dark" -> "Light"
      [] name = "Light" -> "Monochrome"
      [] name = "Monochrome" -> "Ocean"
      [] name = "Ocean" -> "BlueRidge"
      [] name = "BlueRidge" -> "Dotrb"
      [] name = "Dotrb" -> "Everforest"
      [] name = "Everforest" -> "Mars"
      [] name = "Mars" -> "TokyoNight"
      [] name = "TokyoNight" -> "Vesper"
      [] name = "Vesper" -> "Default"

\* get_selected_parent_id: Some(the id of the selected task)
\* the id of the first root task, whatever the selection
first_root_id == IF tasks # <<>> THEN <<tasks[1].id>> ELSE <<>>

\* App::get_selected_parent_id
get_selected_parent_id ==
    LET task == get_task_at_path(tasks, selected_index, selected_path)
    IN  IF task # <<>> THEN <<task[1].id>> ELSE <<>>

RECURSIVE Flatten(_)
Flatten(ss) == IF ss = <<>> THEN <<>> ELSE Head(ss) \o Flatten(Tail(ss))

\* format_task of save_tasks_to_txt: the lines of a task and its subtasks,
\* a line being its indent, its checkbox and its title
RECURSIVE format_task(_, _)
format_task(task, indent) ==
    <<[indent |-> indent,
       checkbox |-> IF task.completed THEN "[x]" ELSE "[ ]",
       title |-> task.title]>>
    \o Flatten([i \in 1..Len(task.subtasks) |->
                    format_task(task.subtasks[i], indent + 1)])

\* the output save_tasks_to_txt writes to tasks.txt: the lines of the tasks,
\* or the single line "No tasks yet.", which has neither checkbox nor title
tasks_txt_output(ts) ==
    IF ts = <<>>
    THEN <<[indent |-> 0, checkbox |-> "No tasks yet.", title |-> <<>>]>>
    ELSE Flatten([i \in 1..Len(ts) |-> format_task(ts[i], 0)])

\* the results of the calls of a save, in the order made
Results(oks) == [i \in 1..Len(oks) |-> IF oks[i] THEN "ok" ELSE "err"]

\* the save_state and save_tasks_to_txt calls of a handler, made once its
\* command has acted: oks and okt hold the outcome of each call made, a
\* failed call leaves its file as it was (the copy to ~/browserpage/todo.txt
\* never fails the call)
Saves(oks, okt) ==
    /\ state_json' = IF oks = <<TRUE>> THEN StateFile(saved_state(now))'
                     ELSE state_json
    /\ tasks_txt' = IF okt = <<TRUE>> THEN <<tasks_txt_output(tasks')>>
                    ELSE tasks_txt

\* the fields of App the dispatcher itself assigns
Ui(mode, buffer, selection, c_time, notification) ==
    /\ input_mode' = mode
    /\ input_buffer' = buffer
    /\ menu_selection' = selection
    /\ last_c_key_time' = c_time
    /\ save_notification_time' = notification

SetMode(mode) ==
    Ui(mode, input_buffer, menu_selection, last_c_key_time,
       save_notification_time)

\* handle_input returns ret ("false", "true" or "err") to run_app, which
\* goes on to update() after Ok(false) and leaves the loop otherwise
Return(key, oks, okt, ret) ==
    /\ event' = Handled(key, Results(oks), Results(okt), ret)
    /\ pc' = IF ret = "false" THEN "update" ELSE "done"

\* a command has panicked: the process is gone before anything else is done
Aborted(key) ==
    /\ UNCHANGED <<ui_vars, disk_vars>>
    /\ event' = Handled(key, <<>>, <<>>, "panic")
    /\ pc' = "done"

\* a handler that calls no command of App or of its timer
NoCommand ==
    /\ ~panicked
    /\ UNCHANGED <<tasks, selected_index, selected_path, next_task_id,
                   pomodoro, theme_name, now, panicked, last>>

\* App::cycle_theme
cycle_theme ==
    /\ ~panicked
    /\ theme_name' = next_theme(theme_name)
    /\ last' = Cmd("cycle_theme", <<>>, "unit")
    /\ UNCHANGED <<tasks, selected_index, selected_path, next_task_id,
                   pomodoro, now, panicked>>

\* mutant: a failed save_state is tried again before the loop is left
save_and_quit_retrying(key, ok_state, ok_txt) ==
    /\ NoCommand
    /\ UNCHANGED ui_vars
    /\ IF ok_state
       THEN /\ Saves(<<TRUE>>, <<ok_txt>>)
            /\ Return(key, <<TRUE>>, <<ok_txt>>, "true")
       ELSE /\ Saves(<<FALSE, FALSE>>, <<>>)
            /\ Return(key, <<FALSE, FALSE>>, <<>>, "err")

\* 'q' in Normal mode and "Quit" in the menu:
\* app.save_state()?; let _ = app.save_tasks_to_txt(); return Ok(true)
save_and_quit(key, ok_state, ok_txt) ==
    /\ NoCommand
    /\ UNCHANGED ui_vars
    /\ IF ok_state
       THEN /\ Saves(<<TRUE>>, <<ok_txt>>)
            /\ Return(key, <<TRUE>>, <<ok_txt>>, "true")
       ELSE /\ Saves(<<FALSE>>, <<>>)
            /\ Return(key, <<FALSE>>, <<>>, "err")

\* mutant: a handler that gives up, and leaves the loop, when a save fails
save_both_or_fail(key, ok_state, ok_txt) ==
    IF ok_state /\ ok_txt
    THEN /\ Saves(<<TRUE>>, <<TRUE>>)
         /\ Return(key, <<TRUE>>, <<TRUE>>, "false")
    ELSE /\ Saves(<<ok_state>>, <<>>)
         /\ Return(key, <<ok_state>>, <<>>, "err")

\* let _ = app.save_state(); let _ = app.save_tasks_to_txt(); and Ok(false)
save_both(key, ok_state, ok_txt) ==
    /\ Saves(<<ok_state>>, <<ok_txt>>)
    /\ Return(key, <<ok_state>>, <<ok_txt>>, "false")

\* a handler that saves nothing, and Ok(false)
save_nothing(key) ==
    /\ UNCHANGED disk_vars
    /\ Return(key, <<>>, <<>>, "false")

handle_normal_input(key, ok_state, ok_txt) ==
    CASE key = "q" -> save_and_quit(key, ok_state, ok_txt)
      [] key = "a" ->
            /\ NoCommand
            /\ Ui(Mode("AddingTask"), <<>>, menu_selection, last_c_key_time,
                  save_notification_time)
            /\ save_nothing(key)
      [] key = "s" ->
            /\ NoCommand
            /\ IF get_selected_parent_id # <<>>
               THEN Ui(AddingSubtask(get_selected_parent_id[1]), <<>>,
                       menu_selection, last_c_key_time,
                       save_notification_time)
               ELSE UNCHANGED ui_vars
            /\ save_nothing(key)
      [] key = "x" ->
            /\ toggle_task_completion
            /\ UNCHANGED ui_vars
            /\ save_both(key, ok_state, ok_txt)
      [] key \in {"Up", "k"} ->
            /\ move_selection_up
            /\ IF panicked' THEN Aborted(key)
               ELSE UNCHANGED ui_vars /\ save_nothing(key)
      [] key \in {"Down", "j"} ->
            /\ move_selection_down
            /\ IF panicked' THEN Aborted(key)
               ELSE UNCHANGED ui_vars /\ save_nothing(key)
      [] key = "p" ->
            /\ pomodoro_toggle
            /\ UNCHANGED ui_vars
            /\ save_nothing(key)
      [] key = "r" ->
            /\ pomodoro_reset
            /\ UNCHANGED ui_vars
            /\ save_nothing(key)
      [] key = "t" ->
            /\ cycle_theme
            /\ UNCHANGED ui_vars
            /\ Saves(<<ok_state>>, <<>>)
            /\ Return(key, <<ok_state>>, <<>>, "false")
      [] key = "w" ->
            /\ NoCommand
            /\ Ui(input_mode, input_buffer, menu_selection, last_c_key_time,
                  <<now>>)
            /\ save_both(key, ok_state, ok_txt)
      [] key = "c" ->
            /\ NoCommand
            /\ IF /\ last_c_key_time # <<>>
                  /\ now - last_c_key_time[1] < DOUBLE_C_MILLIS
               THEN Ui(Mode("ConfirmingClear"), input_buffer,
                       menu_selection, <<>>, save_notification_time)
               ELSE Ui(Mode("ConfirmingDelete"), input_buffer,
                       menu_selection, <<now>>, save_notification_time)
            /\ save_nothing(key)
      [] key = "Esc" ->
            /\ NoCommand
            /\ Ui(Mode("Menu"), input_buffer, 0, last_c_key_time,
                  save_notification_time)
            /\ save_nothing(key)
      [] OTHER ->
            /\ NoCommand
            /\ Ui(input_mode, input_buffer, menu_selection, <<>>,
                  save_notification_time)
            /\ save_nothing(key)

\* the Enter arm of handle_input_mode once add_task or add_subtask has acted
Entered(key, ok_state, ok_txt) ==
    IF panicked' THEN Aborted(key)
    ELSE IF last'.ret = "true"
    THEN /\ Ui(Mode("Normal"), <<>>, menu_selection, last_c_key_time,
               save_notification_time)
         /\ save_both(key, ok_state, ok_txt)
    ELSE /\ UNCHANGED ui_vars
         /\ save_nothing(key)

\* limit: the last id the session hands out
handle_input_mode(key, ok_state, ok_txt, limit) ==
    CASE key = "Enter" ->
            IF input_mode.kind = "AddingTask"
            THEN /\ add_task(input_buffer, limit)
                 /\ Entered(key, ok_state, ok_txt)
            ELSE /\ add_subtask(input_buffer, limit)
                 /\ Entered(key, ok_state, ok_txt)
      [] key \in {"Esc", "Ctrl-c"} ->
            /\ NoCommand
            /\ Ui(Mode("Normal"), <<>>, menu_selection, last_c_key_time,
                  save_notification_time)
            /\ save_nothing(key)
      [] key \in CharKeys ->
            /\ chars_count(input_buffer) < MaxInputLen
            /\ NoCommand
            /\ Ui(input_mode, push(input_buffer, CharOf(key)),
                  menu_selection, last_c_key_time, save_notification_time)
            /\ save_nothing(key)
      [] key = "Backspace" ->
            /\ NoCommand
            /\ Ui(input_mode, pop(input_buffer), menu_selection,
                  last_c_key_time, save_notification_time)
            /\ save_nothing(key)
      [] OTHER ->
            /\ NoCommand
            /\ UNCHANGED ui_vars
            /\ save_nothing(key)

\* the Enter arm of handle_menu_input
menu_enter(key, ok_state, ok_txt) ==
    IF menu_selection >= Len(get_menu_options)
    THEN /\ NoCommand
         /\ UNCHANGED ui_vars
         /\ save_nothing(key)
    ELSE LET option == get_menu_options[menu_selection + 1] IN
         CASE option = "Close Menu" ->
                /\ NoCommand
                /\ SetMode(Mode("Normal"))
                /\ save_nothing(key)
           [] option = "Reset Pomodoro" ->
                /\ pomodoro_reset
                /\ SetMode(Mode("Normal"))
                /\ save_nothing(key)
           [] option = "Save Tasks" ->
                /\ NoCommand
                /\ Ui(Mode("Normal"), input_buffer, menu_selection,
                      last_c_key_time, <<now>>)
                /\ save_both(key, ok_state, ok_txt)
           [] option = "Clear All Tasks" ->
                /\ NoCommand
                /\ SetMode(Mode("ConfirmingClear"))
                /\ save_nothing(key)
           [] option = "Change Theme" ->
                /\ cycle_theme
                /\ SetMode(Mode("Normal"))
                /\ Saves(<<ok_state>>, <<>>)
                /\ Return(key, <<ok_state>>, <<>>, "false")
           [] option = "Quit" -> save_and_quit(key, ok_state, ok_txt)

handle_menu_input(key, ok_state, ok_txt) ==
    CASE key \in {"Esc", "q"} ->
            /\ NoCommand
            /\ SetMode(Mode("Normal"))
            /\ save_nothing(key)
      [] key \in {"Up", "k"} ->
            /\ NoCommand
            /\ Ui(input_mode, input_buffer,
                  move_menu_selection_up(menu_selection), last_c_key_time,
                  save_notification_time)
            /\ save_nothing(key)
      [] key \in {"Down", "j"} ->
            /\ NoCommand
            /\ Ui(input_mode, input_buffer,
                  move_menu_selection_down(menu_selection), last_c_key_time,
                  save_notification_time)
            /\ save_nothing(key)
      [] key = "Enter" -> menu_enter(key, ok_state, ok_txt)
      [] OTHER ->
            /\ NoCommand
            /\ UNCHANGED ui_vars
            /\ save_nothing(key)

\* a confirmation that takes every key but 'n', 'N' and Esc for a yes
handle_confirmation_input_by_default(key, ok_state, ok_txt) ==
    CASE key \in {"n", "N", "Esc"} ->
            /\ NoCommand
            /\ SetMode(Mode("Normal"))
            /\ save_nothing(key)
      [] OTHER ->
            /\ IF input_mode.kind = "ConfirmingDelete"
               THEN delete_selected_task
               ELSE clear_all_tasks
            /\ IF panicked' THEN Aborted(key)
               ELSE /\ SetMode(Mode("Normal"))
                    /\ save_both(key, ok_state, ok_txt)

\* input::handle_confirmation_input
handle_confirmation_input(key, ok_state, ok_txt) ==
    CASE key \in {"y", "Y"} ->
            /\ IF input_mode.kind = "ConfirmingDelete"
               THEN delete_selected_task
               ELSE clear_all_tasks
            /\ IF panicked' THEN Aborted(key)
               ELSE /\ SetMode(Mode("Normal"))
                    /\ save_both(key, ok_state, ok_txt)
      [] key \in {"n", "N", "Esc"} ->
            /\ NoCommand
            /\ SetMode(Mode("Normal"))
            /\ save_nothing(key)
      [] OTHER ->
            /\ NoCommand
            /\ UNCHANGED ui_vars
            /\ save_nothing(key)

\* input::handle_input, as run_app calls it after the frame is drawn
handle_input(key, ok_state, ok_txt, limit) ==
    /\ pc = "input"
    /\ CASE key = "io_error" ->
                /\ NoCommand
                /\ UNCHANGED <<ui_vars, disk_vars, presses>>
                /\ Return(key, <<>>, <<>>, "err")
         [] key \in {"none", "release"} ->
                /\ NoCommand
                /\ UNCHANGED <<ui_vars, presses>>
                /\ save_nothing(key)
         [] OTHER ->
                /\ presses < MaxPresses
                /\ presses' = presses + 1
                /\ CASE input_mode.kind = "Normal" ->
                           handle_normal_input(key, ok_state, ok_txt)
                     [] input_mode.kind \in {"AddingTask", "AddingSubtask"} ->
                           handle_input_mode(key, ok_state, ok_txt,
                                             limit)
                     [] input_mode.kind = "Menu" ->
                           handle_menu_input(key, ok_state, ok_txt)
                     [] input_mode.kind
                           \in {"ConfirmingDelete", "ConfirmingClear"} ->
                           handle_confirmation_input(key, ok_state, ok_txt)

\* main up to run_app: load_state on the App just constructed, its error
\* only reported, then save_tasks_to_txt, its error dropped
main(ok_txt) ==
    /\ pc = "main"
    /\ load_state(state_json)
    /\ tasks_txt' = IF ok_txt THEN <<tasks_txt_output(tasks')>> ELSE tasks_txt
    /\ pc' = "draw"
    /\ UNCHANGED <<ui_vars, state_json, event, presses>>

\* the loop of run_app down to terminal.draw: sync_state_with_duration, the
\* notification hidden once a whole second old, and the frame drawn, or an
\* error of the terminal that ends the loop
draw(ok) ==
    /\ pc = "draw"
    /\ TimerCmd("sync_state_with_duration",
                sync_state_with_duration(pomodoro), "unit")
    /\ save_notification_time' =
            IF /\ save_notification_time # <<>>
               /\ num_seconds(now - save_notification_time[1])
                    >= NOTIFICATION_SECONDS
            THEN <<>> ELSE save_notification_time
    /\ pc' = IF ok THEN "input" ELSE "done"
    /\ UNCHANGED <<input_mode, input_buffer, menu_selection, last_c_key_time,
                   disk_vars, event, presses>>

\* the end of an iteration of run_app: app.pomodoro.update()
update_timer ==
    /\ pc = "update"
    /\ pomodoro_update
    /\ pc' = "draw"
    /\ event' = Handled("none", <<>>, <<>>, "false")
    /\ UNCHANGED <<ui_vars, disk_vars, presses>>

\* time passes while the process runs or after it has ended
LoopAdvances == {Minutes(25)}

pass(d) ==
    /\ pc # "main"
    /\ Tick(d)
    /\ UNCHANGED shell_vars

\* the program is launched again once the process has ended
launch ==
    /\ pc = "done"
    /\ relaunch
    /\ Ui(Mode("Normal"), <<>>, 0, <<>>, <<>>)
    /\ pc' = "main"
    /\ event' = [Handled("none", <<>>, <<>>, "false") EXCEPT
                    !.input_mode = Mode("Normal")]
    /\ presses' = 0
    /\ UNCHANGED disk_vars

NextLoop ==
    \/ \E ok_txt \in BOOLEAN : main(ok_txt)
    \/ \E ok \in BOOLEAN : draw(ok)
    \/ \E key \in Keys, ok_state \in BOOLEAN, ok_txt \in BOOLEAN :
            handle_input(key, ok_state, ok_txt, MaxLoopId)
    \/ update_timer
    \/ \E d \in LoopAdvances : pass(d)

SpecLoop == Init /\ [][NextLoop]_vars

\* the keys of a user who watches the timer: the timer keys, the keys that
\* enter and leave each input mode, a typed letter, quit, and no key at all
LiveKeys ==
    {"p", "r", "a", "s", "c", "z", "Esc", "Enter", "q", "none", "io_error"}

\* Launches one after the other, each a main loop that reads LiveKeys while
\* time passes
NextLive ==
    \/ \E ok_txt \in BOOLEAN : main(ok_txt)
    \/ \E ok \in BOOLEAN : draw(ok)
    \/ \E key \in LiveKeys, ok_state \in BOOLEAN, ok_txt \in BOOLEAN :
            handle_input(key, ok_state, ok_txt, MaxLoopId)
    \/ update_timer
    \/ \E d \in LoopAdvances : pass(d)
    \/ launch

\* run_app is sequential code none of whose steps blocks (the poll of
\* handle_input times out after 50 ms), so each step of a running process
\* is taken in the end; and time passes
SpecLive ==
    /\ Init
    /\ [][NextLive]_vars
    /\ WF_vars(\E ok_txt \in BOOLEAN : main(ok_txt))
    /\ WF_vars(\E ok \in BOOLEAN : draw(ok))
    /\ WF_vars(\E key \in LiveKeys, ok_state \in BOOLEAN, ok_txt \in BOOLEAN :
                    handle_input(key, ok_state, ok_txt, MaxLoopId))
    /\ WF_vars(update_timer)
    /\ WF_vars(\E d \in LoopAdvances : pass(d))

(***************************************************************************)
(* The key dispatcher on a saved tree                                      *)
(***************************************************************************)
\* ids the sessions that start from a saved tree may hand out
MaxKeysId == 4

\* the state.json a session finds: none, or the one an earlier session wrote
\* after it had added task 1, its subtask 2 and task 3
KeysFiles ==
    { MissingFile,
      StateFile([tasks |-> <<SavedTask(1, <<SavedTask(2, <<>>)>>),
                             SavedTask(3, <<>>)>>,
                 next_task_id |-> 4,
                 pomodoro_cycles |-> 0,
                 pomodoro_state |-> "Work",
                 pomodoro_timer_state |-> "Stopped",
                 pomodoro_remaining_seconds |-> WORK_MINUTES * 60,
                 theme |-> <<"Default">>]) }

\* main has constructed the App, and state.json is one of KeysFiles
InitKeys ==
    /\ tasks = <<>>
    /\ selected_index = 0
    /\ selected_path = <<>>
    /\ next_task_id = 1
    /\ pomodoro = PomodoroTimer_new
    /\ theme_name = "Default"
    /\ now = 0
    /\ input_mode = Mode("Normal")
    /\ input_buffer = <<>>
    /\ menu_selection = 0
    /\ last_c_key_time = <<>>
    /\ save_notification_time = <<>>
    /\ state_json \in KeysFiles
    /\ tasks_txt = <<>>
    /\ pc = "main"
    /\ event = Handled("none", <<>>, <<>>, "false")
    /\ presses = 0
    /\ panicked = FALSE
    /\ last = Cmd("new", <<>>, "unit")

\* the keys of a user who edits the tree: every key but those of the timer,
\* of the theme and of the save command
TreeKeys == Keys \ {"p", "r", "t", "w"}

NextKeys ==
    \/ \E ok_txt \in BOOLEAN : main(ok_txt)
    \/ \E ok \in BOOLEAN : draw(ok)
    \/ \E key \in TreeKeys, ok_state \in BOOLEAN, ok_txt \in BOOLEAN :
            handle_input(key, ok_state, ok_txt, MaxKeysId)
    \/ update_timer

SpecKeys == InitKeys /\ [][NextKeys]_vars

(***************************************************************************)
(* Repair of a timer whose phase and duration may disagree                 *)
(***************************************************************************)
\* the timers reset() and sync_state_with_duration() are given: the fields
\* of PomodoroTimer are public, and load_state calls reset() on a timer
\* that has the phase of the snapshot and the duration of a new timer
TimerInputs ==
    { [state |-> state, timer_state |-> timer_state,
       duration |-> Minutes(minutes), remaining |-> remaining,
       cycles |-> cycles, start_time |-> <<>>] :
        state \in {"Work", "ShortBreak", "LongBreak"},
        timer_state \in {"Stopped", "Running", "Paused"},
        minutes \in {WORK_MINUTES, SHORT_BREAK_MINUTES, LONG_BREAK_MINUTES},
        remaining \in {Seconds(330), Minutes(WORK_MINUTES)},
        cycles \in {0, MaxSavedCycles} }

\* an App whose timer is one of TimerInputs
InitRepair ==
    /\ tasks = <<>>
    /\ selected_index = 0
    /\ selected_path = <<>>
    /\ next_task_id = 1
    /\ pomodoro \in TimerInputs
    /\ theme_name = "Default"
    /\ now = 0
    /\ input_mode = Mode("Normal")
    /\ input_buffer = <<>>
    /\ menu_selection = 0
    /\ last_c_key_time = <<>>
    /\ save_notification_time = <<>>
    /\ state_json = MissingFile
    /\ tasks_txt = <<>>
    /\ pc = "main"
    /\ event = Handled("none", <<>>, <<>>, "false")
    /\ presses = 0
    /\ panicked = FALSE
    /\ last = Cmd("given", <<>>, "unit")

\* app.pomodoro.sync_state_with_duration(), as run_app calls it
pomodoro_sync ==
    TimerCmd("sync_state_with_duration", sync_state_with_duration(pomodoro),
             "unit")

NextRepair ==
    \/ /\ UNCHANGED shell_vars
       /\ pomodoro_reset
    \/ /\ UNCHANGED shell_vars
       /\ pomodoro_sync

SpecRepair == InitRepair /\ [][NextRepair]_vars

(***************************************************************************)
(* Properties                                                              *)
(***************************************************************************)
\* every node of a task, as the path from the task down to it
RECURSIVE PathsBelow(_)
PathsBelow(task) ==
    {<<>>} \cup UNION { { <<i - 1>> \o p : p \in PathsBelow(task.subtasks[i]) }
                        : i \in 1..Len(task.subtasks) }

\* every node of a forest, as (root index, path)
Nodes(ts) == UNION { { Sel(i - 1, p) : p \in PathsBelow(ts[i]) }
                     : i \in 1..Len(ts) }

\* the node of a forest at (root index, path), which is one of Nodes(ts)
RECURSIVE NodeBelow(_, _)
NodeBelow(task, path) ==
    IF path = <<>> THEN task
    ELSE NodeBelow(task.subtasks[path[1] + 1], Tail(path))

NodeAt(ts, s) == NodeBelow(ts[s.index + 1], s.path)

\* what a node is, with its children named by their ids
Info(task) ==
    [id |-> task.id, title |-> task.title, completed |-> task.completed,
     kids |-> [i \in 1..Len(task.subtasks) |-> task.subtasks[i].id]]

RECURSIVE TaskInfo(_)
TaskInfo(task) ==
    {Info(task)} \cup UNION { TaskInfo(task.subtasks[i])
                              : i \in 1..Len(task.subtasks) }

ForestInfo(ts) == UNION { TaskInfo(ts[i]) : i \in 1..Len(ts) }

RootIds(ts) == [i \in 1..Len(ts) |-> ts[i].id]

Without(ids, id) == SelectSeq(ids, LAMBDA x : x # id)

\* the selection before and after the last command
SelBefore == Sel(last.index, last.path)
SelNow == Sel(selected_index, selected_path)

\* the last command was delete_selected_task on a selection that resolved
Deleted ==
    /\ last.op = "delete_selected_task"
    /\ last.ret = "unit"
    /\ SelBefore \in Nodes(last.tasks)

\* the siblings of the node selected before the last command, itself included
SiblingsBefore ==
    IF last.path = <<>> THEN last.tasks
    ELSE NodeAt(last.tasks,
                Sel(last.index, SubSeq(last.path, 1, Len(last.path) - 1))
               ).subtasks

\* the index among its siblings of the node selected before the last command
SiblingIndexBefore ==
    IF last.path = <<>> THEN last.index ELSE last.path[Len(last.path)]

ParentPathBefore == SubSeq(last.path, 1, Len(last.path) - 1)

\* C1: after any sequence of commands from a fresh session, the selection is
\* (0, empty path) on an empty forest and an existing node otherwise
C1_SelectionValid ==
    IF tasks = <<>>
    THEN selected_index = 0 /\ selected_path = <<>>
    ELSE SelNow \in Nodes(tasks)

\* C1 witness: a nested deletion took a subtree away from under a selection
\* two levels down, and the selection still names a node
C1_Witness ==
    /\ Deleted
    /\ Len(last.path) >= 2
    /\ tasks # <<>>
    /\ SelNow \in Nodes(tasks)

\* C2 (as claimed): deleting a node that has a later sibling leaves the
\* selection where it was, now on the former next sibling
C2_SelectionStaysOnNextSibling ==
    (Deleted /\ SiblingIndexBefore < Len(SiblingsBefore) - 1)
        => /\ SelNow = SelBefore
           /\ SelNow \in Nodes(tasks)
           /\ NodeAt(tasks, SelNow).id
                = SiblingsBefore[SiblingIndexBefore + 2].id

\* C3: deleting a nested subtask that was the last child of its parent moves
\* the selection to the new last sibling (the former second to last) when
\* the parent keeps children, and to the parent when it keeps none
C3_LastChildDeleted ==
    (/\ Deleted
     /\ last.path # <<>>
     /\ SiblingIndexBefore = Len(SiblingsBefore) - 1)
        => /\ selected_index = last.index
           /\ SelNow \in Nodes(tasks)
           /\ IF Len(SiblingsBefore) > 1
              THEN /\ selected_path
                        = Append(ParentPathBefore, Len(SiblingsBefore) - 2)
                   /\ NodeAt(tasks, SelNow).id
                        = SiblingsBefore[Len(SiblingsBefore) - 1].id
              ELSE /\ selected_path = ParentPathBefore
                   /\ NodeAt(tasks, SelNow).id
                        = NodeAt(last.tasks,
                                 Sel(last.index, ParentPathBefore)).id

\* C3 witness: the last of several children has been deleted
C3_Witness ==
    /\ Deleted
    /\ last.path # <<>>
    /\ SiblingIndexBefore = Len(SiblingsBefore) - 1
    /\ Len(SiblingsBefore) > 1

\* C4: deleting the only root task leaves an empty forest and the selection
\* (0, empty path); deleting the last of several root tasks leaves the
\* selection on the new last root task, with an empty path
C4_LastRootDeleted ==
    (/\ Deleted
     /\ last.path = <<>>
     /\ last.index = Len(last.tasks) - 1)
        => IF Len(last.tasks) = 1
           THEN tasks = <<>> /\ selected_index = 0 /\ selected_path = <<>>
           ELSE /\ tasks = SubSeq(last.tasks, 1, Len(last.tasks) - 1)
                /\ selected_index = Len(last.tasks) - 2
                /\ selected_path = <<>>

\* C4 witness: the last of three root tasks has been deleted
C4_Witness ==
    /\ Deleted
    /\ last.path = <<>>
    /\ last.index = Len(last.tasks) - 1
    /\ Len(last.tasks) = 3

\* C5: delete_selected_task removes the selected node and its descendants
\* and nothing else: every other node keeps its id, title, completion flag
\* and children in their order (less the removed child), the root tasks keep
\* their order, and next_task_id is unchanged
C5_DeleteRemovesExactlySubtree ==
    Deleted =>
        LET removed == NodeAt(last.tasks, SelBefore)
            gone == { n.id : n \in TaskInfo(removed) }
        IN  /\ ForestInfo(tasks)
                 = { [n EXCEPT !.kids = Without(@, removed.id)]
                     : n \in { m \in ForestInfo(last.tasks) : m.id \notin gone } }
            /\ RootIds(tasks) = Without(RootIds(last.tasks), removed.id)
            /\ next_task_id = last.next_id

\* C5 witness: a node with a descendant has been deleted from between an
\* earlier and a later sibling, which both remain
C5_Witness ==
    /\ Deleted
    /\ NodeAt(last.tasks, SelBefore).subtasks # <<>>
    /\ SiblingIndexBefore > 0
    /\ SiblingIndexBefore < Len(SiblingsBefore) - 1

\* a title that is not empty after trimming: it has a character that is not
\* whitespace
NonBlank(title) == \E i \in 1..Len(title) : ~IsWhitespace(title[i].c)

\* the last command appended exactly one new task, of id last.next_id and no
\* children, at the end of the children of the node at `parent` (a selection)
AppendedChild(parent) ==
    LET before == NodeAt(last.tasks, parent)
        after == NodeAt(tasks, parent)
    IN  /\ Len(after.subtasks) = Len(before.subtasks) + 1
        /\ SubSeq(after.subtasks, 1, Len(before.subtasks)) = before.subtasks
        /\ after.subtasks[Len(after.subtasks)].id = last.next_id
        /\ after.subtasks[Len(after.subtasks)].subtasks = <<>>
        /\ total_items(tasks) = total_items(last.tasks) + 1

\* C6 (as claimed): add_subtask with a non-empty title fails and leaves the
\* tree unchanged at a selected path of length 4, and succeeds, appending
\* one child to the selected node, at a path of length 3 that resolves
C6_DepthBoundary ==
    (last.op = "add_subtask" /\ NonBlank(last.title))
        => /\ Len(last.path) = 4
                => last.ret = "false" /\ tasks = last.tasks
           /\ (Len(last.path) = 3 /\ SelBefore \in Nodes(last.tasks))
                => last.ret = "true" /\ AppendedChild(SelBefore)

\* C7: after any sequence of commands from a fresh session, no node lies at
\* a path of more than 4 child indices below its root task
C7_DepthBound == \A n \in Nodes(tasks) : Len(n.path) <= 4

\* C7 witness: the forest has a node at a path of length 4, and add_subtask
\* with a non-empty title has just been refused on it
C7_Witness ==
    /\ last.op = "add_subtask"
    /\ NonBlank(last.title)
    /\ last.ret = "false"
    /\ Len(last.path) = 4
    /\ SelBefore \in Nodes(tasks)

\* C8 (as claimed): when add_subtask returns false, the tree, the selection
\* and next_task_id are as before
C8_FailedAddSubtaskChangesNothing ==
    (last.op = "add_subtask" /\ last.ret = "false")
        => /\ tasks = last.tasks
           /\ SelNow = SelBefore
           /\ next_task_id = last.next_id

\* C9 (as claimed): add_task with a title that is empty after trimming
\* returns false and changes nothing; with any other title it returns true
\* and appends exactly one new root task at the end of the root sequence
C9_AddTaskResult ==
    last.op = "add_task"
        => IF NonBlank(last.title)
           THEN /\ last.ret = "true"
                /\ Len(tasks) = Len(last.tasks) + 1
                /\ SubSeq(tasks, 1, Len(last.tasks)) = last.tasks
                /\ tasks[Len(tasks)].id = last.next_id
                /\ tasks[Len(tasks)].subtasks = <<>>
           ELSE /\ last.ret = "false"
                /\ tasks = last.tasks
                /\ SelNow = SelBefore
                /\ next_task_id = last.next_id

\* the number of characters of a string
RECURSIVE CharLen(_)
CharLen(s) == IF s = <<>> THEN 0 ELSE Head(s).n + CharLen(Tail(s))

\* the first k characters of a string of more than k characters
RECURSIVE TakeChars(_, _)
TakeChars(s, k) ==
    IF k = 0 THEN <<>>
    ELSE IF Head(s).n >= k THEN <<Run(Head(s).c, k)>>
    ELSE <<Head(s)>> \o TakeChars(Tail(s), k - Head(s).n)

\* the title C10 expects to be stored: the trimmed input, or its first 200
\* characters when it has more
TitleByChars(title) ==
    IF CharLen(Trim(title)) > 200
    THEN TakeChars(Trim(title), 200)
    ELSE Trim(title)

\* C10 (as claimed): add_task and add_subtask never fail on a title for its
\* length or its characters, and the title they store is the trimmed input
\* when it has at most 200 characters, and its first 200 characters otherwise
C10_StoredTitle ==
    /\ last.op \in {"add_task", "add_subtask"} => last.ret # "panic"
    /\ (last.op = "add_task" /\ last.ret = "true")
            => tasks[Len(tasks)].title = TitleByChars(last.title)
    /\ (last.op = "add_subtask" /\ last.ret = "true")
            => LET parent == NodeAt(tasks, SelBefore)
               IN  parent.subtasks[Len(parent.subtasks)].title
                        = TitleByChars(last.title)


\* the ids of the nodes of a forest
Ids(ts) == { n.id : n \in ForestInfo(ts) }

\* the last command was an add_task or add_subtask that inserted a task
Inserted ==
    /\ last.op \in {"add_task", "add_subtask"}
    /\ last.ret = "true"

\* C11: after any sequence of insertions and deletions from a fresh session
\* the ids in the tree are pairwise distinct; a newly inserted task has the
\* id the counter had, which is above every id allocated before (each of
\* them was below the counter when allocated, and the counter, which no
\* command has decreased, is above every id of the tree); ids of deleted
\* tasks are therefore not reused
C11_IdsFresh ==
    /\ Cardinality(Ids(tasks)) = total_items(tasks)
    /\ \A id \in Ids(tasks) : id < next_task_id
    /\ next_task_id >= last.next_id
    /\ Inserted
        => /\ Ids(tasks) \ Ids(last.tasks) = {last.next_id}
           /\ \A id \in Ids(last.tasks) : id < last.next_id
           /\ next_task_id > last.next_id

\* C11 witness: a task has been inserted into a forest that had lost a task
\* of a greater id than any it kept
C11_Witness ==
    /\ Inserted
    /\ last.tasks # <<>>
    /\ \A id \in Ids(last.tasks) : id + 1 < last.next_id
    /\ Cardinality(Ids(tasks)) = total_items(last.tasks) + 1


\* the last command was a load_state that restored a snapshot
Restored ==
    /\ last.op = "load_state"
    /\ last.snapshot # <<>>

\* C12 (as claimed): after load_state has restored a snapshot, next_task_id
\* is above every id of the loaded tree, at every depth
C12_LoadedIdsBelowCounter ==
    Restored => \A id \in Ids(tasks) : id < next_task_id


\* the last command was toggle_task_completion on a selection that resolved
Toggled ==
    /\ last.op = "toggle_task_completion"
    /\ SelBefore \in Nodes(last.tasks)

\* C13: toggle_task_completion on a selected node whose flag is c sets the
\* flag of the node and of every descendant to not-c, whatever their flags
\* were, and changes nothing else: every node keeps its id, title and
\* children, every node outside the subtree keeps its flag, and the root
\* tasks keep their order
C13_ToggleSetsSubtree ==
    Toggled =>
        LET node == NodeAt(last.tasks, SelBefore)
            inside == { n.id : n \in TaskInfo(node) }
        IN  /\ ForestInfo(tasks)
                 = { IF n.id \in inside
                     THEN [n EXCEPT !.completed = ~node.completed]
                     ELSE n
                     : n \in ForestInfo(last.tasks) }
            /\ RootIds(tasks) = RootIds(last.tasks)

\* C13 witness: the toggled node had a descendant whose flag differed from
\* its own, and the forest has a completed node outside the subtree
C13_Witness ==
    /\ Toggled
    /\ LET node == NodeAt(last.tasks, SelBefore)
           inside == { n.id : n \in TaskInfo(node) }
       IN  /\ \E n \in TaskInfo(node) : n.completed # node.completed
           /\ \E n \in ForestInfo(tasks) : n.id \notin inside /\ n.completed


\* C14: a successful add_subtask leaves the selection as it was, appends the
\* new task, of no children, as the last child of the selected node, and
\* leaves every node that existed unchanged (the selected node but for its
\* new child), the root tasks in their order
C14_AddSubtaskFrame ==
    (last.op = "add_subtask" /\ last.ret = "true")
        => /\ SelNow = SelBefore
           /\ SelBefore \in Nodes(last.tasks)
           /\ AppendedChild(SelBefore)
           /\ LET parent == NodeAt(last.tasks, SelBefore)
                  children == NodeAt(tasks, SelBefore).subtasks
              IN  ForestInfo(tasks)
                    = { IF n.id = parent.id
                        THEN [n EXCEPT !.kids = Append(@, last.next_id)]
                        ELSE n
                        : n \in ForestInfo(last.tasks) }
                      \cup {Info(children[Len(children)])}
           /\ RootIds(tasks) = RootIds(last.tasks)

\* C14 witness: a subtask has been added to a nested node that already had
\* a child
C14_Witness ==
    /\ last.op = "add_subtask"
    /\ last.ret = "true"
    /\ last.path # <<>>
    /\ NodeAt(last.tasks, SelBefore).subtasks # <<>>


\* the flat index get_flat_index gives a selection that names a node
FlatOf(ts, s) == get_flat_index(ts, s.index, s.path)[1]

\* the selection move_selection_up and move_selection_down leave, from a
\* selection s that names a node of the forest ts
AfterUp(ts, s) ==
    LET found == move_up_target(ts, FlatOf(ts, s))
    IN  IF found # <<>> THEN found[1] ELSE s

AfterDown(ts, s) ==
    LET found == move_down_target(ts, FlatOf(ts, s), total_items(ts) - 1)
    IN  IF found # <<>> THEN found[1] ELSE s

\* the last command was move_selection_up or move_selection_down (op) on a
\* selection that named a node
Moved(op) ==
    /\ last.op = op
    /\ last.ret = "unit"
    /\ SelBefore \in Nodes(last.tasks)

\* C15: from a valid selection that is not at the last flat position,
\* move_selection_down goes to another node from which move_selection_up
\* returns to the original selection; from one not at the first flat
\* position, move_selection_up goes to another node from which
\* move_selection_down returns
C15_MoveRoundTrip ==
    /\ (/\ Moved("move_selection_down")
        /\ FlatOf(last.tasks, SelBefore) < total_items(last.tasks) - 1)
            => /\ SelNow # SelBefore
               /\ SelNow \in Nodes(tasks)
               /\ AfterUp(tasks, SelNow) = SelBefore
    /\ (/\ Moved("move_selection_up")
        /\ FlatOf(last.tasks, SelBefore) > 0)
            => /\ SelNow # SelBefore
               /\ SelNow \in Nodes(tasks)
               /\ AfterDown(tasks, SelNow) = SelBefore

\* C15 witness: move_selection_down has left a nested node for the next
\* root task, and move_selection_up from there leads back
C15_Witness ==
    /\ Moved("move_selection_down")
    /\ last.path # <<>>
    /\ selected_index = last.index + 1
    /\ AfterUp(tasks, SelNow) = SelBefore


\* C16 (as claimed): on an empty forest move_selection_up and
\* move_selection_down return normally and leave the selection at
\* (0, empty path)
C16_MoveOnEmptyForest ==
    (/\ last.op \in {"move_selection_up", "move_selection_down"}
     /\ last.tasks = <<>>)
        => /\ last.ret = "unit"
           /\ ~panicked
           /\ selected_index = 0
           /\ selected_path = <<>>


\* C17: clear_all_tasks leaves an empty forest and the selection
\* (0, empty path), and leaves the timer and next_task_id as they were
C17_ClearAllTasks ==
    last.op = "clear_all_tasks"
        => /\ tasks = <<>>
           /\ selected_index = 0
           /\ selected_path = <<>>
           /\ pomodoro = last.pomodoro
           /\ next_task_id = last.next_id

\* C17 witness: a forest with a nested selection has been cleared while the
\* timer was running on a phase other than the initial one
C17_Witness ==
    /\ last.op = "clear_all_tasks"
    /\ last.tasks # <<>>
    /\ last.path # <<>>
    /\ last.next_id > 1
    /\ pomodoro.timer_state = "Running"
    /\ pomodoro.start_time # <<>>
    /\ pomodoro.state # "Work"


\* the duration of a phase
PhaseDuration(state) ==
    CASE state = "Work" -> Minutes(25)
      [] state = "ShortBreak" -> Minutes(5)
      [] state = "LongBreak" -> Minutes(15)

\* C18: in every timer state reached from the initial one by load_state,
\* start, pause, toggle, reset and update, the phase is one of the three and
\* the duration is 25 min on Work, 5 min on ShortBreak, 15 min on LongBreak
C18_DurationMatchesPhase ==
    /\ pomodoro.state \in {"Work", "ShortBreak", "LongBreak"}
    /\ pomodoro.duration = PhaseDuration(pomodoro.state)

\* C18 witness: update has completed a Work phase into a long break
C18_Witness ==
    /\ last.op = "update"
    /\ last.ret = "true"
    /\ last.pomodoro.state = "Work"
    /\ pomodoro.state = "LongBreak"
    /\ pomodoro.duration = Minutes(15)


\* C19 (as claimed): get_remaining_seconds is never negative, in any timer
\* state and at any clock reading
C19_RemainingSecondsNonNegative == get_remaining_seconds(pomodoro, now) >= 0


\* C20: start() on a Running timer changes nothing: start_time, remaining,
\* state, duration, cycles and timer_state are as before, and so is the
\* time get_remaining_seconds reports
C20_StartWhileRunning ==
    (last.op = "start" /\ last.pomodoro.timer_state = "Running")
        => /\ pomodoro = last.pomodoro
           /\ get_remaining_seconds(pomodoro, now)
                = get_remaining_seconds(last.pomodoro, last.now)

\* C20 witness: start() has been called on a timer that had been running
\* for some time
C20_Witness ==
    /\ last.op = "start"
    /\ last.pomodoro.timer_state = "Running"
    /\ last.pomodoro.start_time # <<>>
    /\ now > last.pomodoro.start_time[1]
    /\ pomodoro.start_time = last.pomodoro.start_time


\* the time a timer has left at the clock reading t, in milliseconds: what
\* remains less the time since the anchor
TimeLeft(p, t) ==
    IF p.timer_state = "Running" /\ p.start_time # <<>>
    THEN p.remaining - (t - p.start_time[1])
    ELSE p.remaining

\* the time the timer was Running during the last command
RanFor == IF last.pomodoro.timer_state = "Running" THEN now - last.now ELSE 0

\* C21 (as claimed): across start, pause, toggle and clock advances within
\* a phase, the time left is the time left before less the time spent
\* Running, time spent Paused or Stopped not counted, and
\* get_remaining_seconds is that time in whole seconds, floored at 0; so
\* start() after pause() resumes from the paused remaining
C21_RemainingTracksRunningTime ==
    last.op \in {"start", "pause", "toggle", "tick"}
        => /\ TimeLeft(pomodoro, now)
                = TimeLeft(last.pomodoro, last.now) - RanFor
           /\ pomodoro.state = last.pomodoro.state
           /\ get_remaining_seconds(pomodoro, now)
                = Max(num_seconds(TimeLeft(pomodoro, now)), 0)


\* the timer was Running before the last command and the time since its
\* anchor had reached what remained
WasDue ==
    /\ last.pomodoro.timer_state = "Running"
    /\ last.pomodoro.start_time # <<>>
    /\ last.now - last.pomodoro.start_time[1] >= last.pomodoro.remaining

\* C22: update() returns true exactly when the timer is Running and the
\* time since the anchor is at least remaining; the timer is then Stopped,
\* in the next phase (a break after Work, Work after a break), with
\* remaining the duration of the new phase and no anchor; otherwise
\* update() returns false and the timer is as before
C22_UpdateCompletesPhase ==
    last.op = "update"
        => /\ last.ret = (IF WasDue THEN "true" ELSE "false")
           /\ IF WasDue
              THEN /\ pomodoro.timer_state = "Stopped"
                   /\ pomodoro.start_time = <<>>
                   /\ (last.pomodoro.state = "Work")
                        = (pomodoro.state \in {"ShortBreak", "LongBreak"})
                   /\ (last.pomodoro.state # "Work")
                        = (pomodoro.state = "Work")
                   /\ pomodoro.duration = PhaseDuration(pomodoro.state)
                   /\ pomodoro.remaining = pomodoro.duration
              ELSE pomodoro = last.pomodoro

\* C22 witness: update() has completed a phase at the very moment the time
\* since the anchor equalled remaining
C22_Witness ==
    /\ last.op = "update"
    /\ last.ret = "true"
    /\ WasDue
    /\ last.now - last.pomodoro.start_time[1] = last.pomodoro.remaining
    /\ pomodoro.timer_state = "Stopped"


\* the last command was an update() that completed a phase
Completed ==
    /\ last.op = "update"
    /\ last.ret = "true"

\* C23: a completed Work phase adds exactly 1 to the cycle counter and is
\* followed by LongBreak (15 min) when the new count is a multiple of 4 and
\* by ShortBreak (5 min) otherwise; a completed break leaves the counter as
\* it was and is followed by Work (25 min); so completed phases alternate
\* Work, break, Work, break
C23_PhasesAlternate ==
    Completed =>
        IF last.pomodoro.state = "Work"
        THEN /\ pomodoro.cycles = last.pomodoro.cycles + 1
             /\ IF pomodoro.cycles % 4 = 0
                THEN /\ pomodoro.state = "LongBreak"
                     /\ pomodoro.duration = Minutes(15)
                ELSE /\ pomodoro.state = "ShortBreak"
                     /\ pomodoro.duration = Minutes(5)
        ELSE /\ pomodoro.cycles = last.pomodoro.cycles
             /\ pomodoro.state = "Work"
             /\ pomodoro.duration = Minutes(25)

\* C23 witness: the first Work phase of a session has been completed into a
\* short break
C23_Witness ==
    /\ Completed
    /\ last.pomodoro.state = "Work"
    /\ last.pomodoro.cycles = 0
    /\ pomodoro.cycles = 1
    /\ pomodoro.state = "ShortBreak"

\* C24: reset() leaves the timer Stopped, without anchor, with remaining the
\* full duration of the current phase, and the phase, its duration and the
\* cycle counter as they were
C24_Reset ==
    last.op = "reset"
        => /\ pomodoro.timer_state = "Stopped"
           /\ pomodoro.start_time = <<>>
           /\ pomodoro.state = last.pomodoro.state
           /\ pomodoro.cycles = last.pomodoro.cycles
           /\ pomodoro.duration = PhaseDuration(pomodoro.state)
           /\ pomodoro.remaining = pomodoro.duration

\* C24 witness: reset() on a break that had been running and was paused
\* part of the way
C24_Witness ==
    /\ last.op = "reset"
    /\ last.pomodoro.timer_state = "Paused"
    /\ last.pomodoro.state = "ShortBreak"
    /\ last.pomodoro.remaining < last.pomodoro.duration
    /\ last.pomodoro.remaining > 0
    /\ pomodoro.remaining = Minutes(5)


\* C25 (as claimed): load_state of what save_state wrote gives the timer the
\* phase, the remaining seconds and the cycle counter that were saved
C25_SaveLoadRoundTrip ==
    Restored =>
        LET state == last.snapshot[1]
        IN  /\ pomodoro.state = state.pomodoro_state
            /\ num_seconds(pomodoro.remaining)
                 = state.pomodoro_remaining_seconds
            /\ pomodoro.cycles = state.pomodoro_cycles


\* C26 (as claimed): load_state of a snapshot succeeds whatever its strings
\* are; an unrecognized phase gives Work, an unrecognized run status
\* Stopped, an unrecognized theme Default; and the tasks, the cycle counter,
\* a remaining time that is not negative and an id counter that is not 0
\* are those of the snapshot
C26_UnknownStringsDefault ==
    Restored =>
        LET state == last.snapshot[1]
        IN  /\ last.ret = "ok"
            /\ state.pomodoro_state \notin {"Work", "ShortBreak", "LongBreak"}
                    => pomodoro.state = "Work"
            /\ state.pomodoro_timer_state \notin {"Stopped", "Running", "Paused"}
                    => pomodoro.timer_state = "Stopped"
            /\ (state.theme # <<>> /\ state.theme[1] \notin ThemeNames)
                    => theme_name = "Default"
            /\ tasks = state.tasks
            /\ pomodoro.cycles = state.pomodoro_cycles
            /\ state.pomodoro_remaining_seconds >= 0
                    => pomodoro.remaining
                         = Seconds(state.pomodoro_remaining_seconds)
            /\ state.next_task_id # 0 => next_task_id = state.next_task_id


\* the phase a snapshot names, Work when the name is not one of the three
LoadedPhase(state) ==
    IF state.pomodoro_state \in {"Work", "ShortBreak", "LongBreak"}
    THEN state.pomodoro_state ELSE "Work"

\* C27: after load_state of a snapshot remaining is not negative, and when
\* the stored remaining seconds were negative the timer is reset: Stopped,
\* without anchor, in the phase the snapshot names, with remaining the full
\* duration of that phase
C27_LoadedRemainingNonNegative ==
    Restored =>
        LET state == last.snapshot[1]
        IN  /\ pomodoro.remaining >= 0
            /\ state.pomodoro_remaining_seconds < 0
                    => /\ pomodoro.timer_state = "Stopped"
                       /\ pomodoro.start_time = <<>>
                       /\ pomodoro.state = LoadedPhase(state)
                       /\ pomodoro.remaining = PhaseDuration(pomodoro.state)

\* C27 witness: a snapshot of a running long break with negative remaining
\* seconds has been loaded
C27_Witness ==
    /\ Restored
    /\ last.snapshot[1].pomodoro_remaining_seconds < 0
    /\ last.snapshot[1].pomodoro_timer_state = "Running"
    /\ last.snapshot[1].pomodoro_state = "LongBreak"
    /\ pomodoro.remaining = Minutes(15)


\* a step of handle_input
Dispatched == pc = "input" /\ pc' # "input"

\* the step handles a quit command: 'q' in Normal mode, or Enter on "Quit"
\* in the menu
QuitCommand ==
    /\ Dispatched
    /\ \/ input_mode.kind = "Normal" /\ event'.key = "q"
       \/ /\ input_mode.kind = "Menu" /\ event'.key = "Enter"
          /\ menu_selection = 5

\* C29: a quit command ends the loop in its own iteration after exactly one
\* save_state attempt, successful or failed, changing neither the forest,
\* the selection, the id counter nor the timer; and once the loop has ended
\* none of them changes any more
C29_QuitEndsLoop ==
    [][/\ QuitCommand
            => /\ pc' = "done"
               /\ Len(event'.save_state) = 1
               /\ event'.ret = IF event'.save_state = <<"ok">>
                               THEN "true" ELSE "err"
               /\ UNCHANGED <<tasks, selected_index, selected_path,
                              next_task_id, pomodoro>>
       /\ (pc = "done" /\ pc' = "done")
            => UNCHANGED <<tasks, selected_index, selected_path,
                           next_task_id, pomodoro>>]_vars

\* C29 witness: "Quit" was chosen in the menu with a task in the forest,
\* its save_state failed, and the loop has ended
C29_Witness ==
    /\ pc = "done"
    /\ event.key = "Enter"
    /\ event.input_mode.kind = "Menu"
    /\ event.save_state = <<"err">>
    /\ event.ret = "err"
    /\ tasks # <<>>

\* a save the step made has failed, and the step is not a quit command
SaveFailed ==
    /\ Dispatched
    /\ ~QuitCommand
    /\ \/ \E i \in DOMAIN event'.save_state : event'.save_state[i] = "err"
       \/ \E i \in DOMAIN event'.save_tasks_to_txt :
                event'.save_tasks_to_txt[i] = "err"

\* the selected task, in a state where there is one
SelectedTask == get_task_at_path(tasks, selected_index, selected_path)[1]

\* C30: when save_state or save_tasks_to_txt fails after a command that is
\* not a quit, the loop goes on (handle_input returns Ok(false) and update
\* is next), what the command did in memory stays done, and the input mode
\* is the one a successful save leaves: Normal after an added task or
\* subtask, a confirmed delete or clear and a menu choice, unchanged after
\* 'x', 't' and 'w' in Normal mode
C30_SaveFailureKeepsSession ==
    [][SaveFailed
        => /\ pc' = "update"
           /\ event'.ret = "false"
           /\ ~panicked'
           /\ CASE input_mode.kind = "AddingTask" ->
                    /\ event'.key = "Enter"
                    /\ Len(tasks') = Len(tasks) + 1
                    /\ SubSeq(tasks', 1, Len(tasks)) = tasks
                    /\ tasks'[Len(tasks')].title = Trim(input_buffer)
                    /\ input_mode' = Mode("Normal")
                    /\ input_buffer' = <<>>
               [] input_mode.kind = "AddingSubtask" ->
                    /\ event'.key = "Enter"
                    /\ Len(SelectedTask'.subtasks)
                            = Len(SelectedTask.subtasks) + 1
                    /\ total_items(tasks') = total_items(tasks) + 1
                    /\ input_mode' = Mode("Normal")
                    /\ input_buffer' = <<>>
               [] input_mode.kind = "ConfirmingDelete" ->
                    /\ event'.key \in {"y", "Y"}
                    /\ tasks # <<>>
                            => total_items(tasks') < total_items(tasks)
                    /\ input_mode' = Mode("Normal")
               [] input_mode.kind = "ConfirmingClear" ->
                    /\ event'.key \in {"y", "Y"}
                    /\ tasks' = <<>>
                    /\ input_mode' = Mode("Normal")
               [] input_mode.kind = "Menu" ->
                    /\ event'.key = "Enter"
                    /\ tasks' = tasks
                    /\ \/ menu_selection = 2 /\ theme_name' = theme_name
                          /\ save_notification_time' = <<now>>
                       \/ menu_selection = 4 /\ theme_name' # theme_name
                    /\ input_mode' = Mode("Normal")
               [] input_mode.kind = "Normal" ->
                    /\ input_mode' = input_mode
                    /\ CASE event'.key = "x" ->
                                /\ theme_name' = theme_name
                                /\ tasks # <<>>
                                    => SelectedTask'.completed
                                            = ~SelectedTask.completed
                         [] event'.key = "t" ->
                                tasks' = tasks /\ theme_name' # theme_name
                         [] event'.key = "w" ->
                                /\ tasks' = tasks
                                /\ theme_name' = theme_name
                                /\ save_notification_time' = <<now>>
                         [] OTHER -> FALSE]_vars

\* C30 witness: a confirmed delete has emptied the forest, both its saves
\* failed, the mode is Normal again and update is next
C30_Witness ==
    /\ pc = "update"
    /\ event.key = "y"
    /\ event.input_mode.kind = "ConfirmingDelete"
    /\ event.save_state = <<"err">>
    /\ event.save_tasks_to_txt = <<"err">>
    /\ last.op = "delete_selected_task"
    /\ last.tasks # <<>>
    /\ tasks = <<>>
    /\ input_mode = Mode("Normal")


\* the clock can still reach the reading at which the running timer is due:
\* it is due already, or the clock can advance and each advance reaches it
DueInReach ==
    LET left == TimeLeft(pomodoro, now)
    IN  \/ left <= 0
        \/ /\ \E d \in LoopAdvances : now + d <= Minutes(MaxClockMinutes)
           /\ \A d \in LoopAdvances : d >= left

\* update() has just reported a completed phase: the timer is Stopped in
\* another phase than the one it ran
CompletionReported ==
    /\ last.op = "update"
    /\ last.ret = "true"
    /\ pomodoro.timer_state = "Stopped"
    /\ pomodoro.state # last.pomodoro.state

\* a pause or a reset was issued, or the loop is over
Interrupted ==
    \/ last.op \in {"toggle", "pause"} /\ pomodoro.timer_state = "Paused"
    \/ last.op = "reset"
    \/ pc \in {"done", "main"}
    \/ panicked

\* C28 (as claimed): whenever the timer is Running inside the main loop,
\* whatever the input mode and the key events, then unless a pause or a
\* reset is issued or the loop ends, update() eventually reports the
\* completed phase and the timer is Stopped in the next phase
C28_RunningTimerCompletes ==
    (/\ pc \in {"draw", "input", "update"}
     /\ pomodoro.timer_state = "Running"
     /\ DueInReach)
        ~> (CompletionReported \/ Interrupted)


\* a press of 'c' less than 500 ms ago has set last_c_key_time
RecentC ==
    /\ last_c_key_time # <<>>
    /\ now - last_c_key_time[1] < DOUBLE_C_MILLIS

\* C31 (as claimed): 'c' pressed in Normal mode, no other 'c' less than
\* 500 ms before it, opens ConfirmingDelete; and a second 'c' less than
\* 500 ms after it, which finds the mode and the last_c_key_time the first
\* one left, opens ConfirmingClear
C31_DoubleCOpensClear ==
    [][(Dispatched /\ event'.key = "c")
        => /\ (input_mode.kind = "Normal" /\ ~RecentC)
                => input_mode' = Mode("ConfirmingDelete")
           /\ (input_mode.kind = "ConfirmingDelete" /\ RecentC)
                => input_mode' = Mode("ConfirmingClear")]_vars


\* the next sibling of the node s, or else of its nearest ancestor that has
\* one, the root tasks being siblings of each other: Some(node) or None
RECURSIVE NextSiblingUpwards(_, _)
NextSiblingUpwards(ts, s) ==
    IF s.path = <<>>
    THEN IF s.index + 1 < Len(ts) THEN <<Sel(s.index + 1, <<>>)>> ELSE <<>>
    ELSE LET parent == Sel(s.index, SubSeq(s.path, 1, Len(s.path) - 1))
             k == s.path[Len(s.path)]
         IN  IF k + 1 < Len(NodeAt(ts, parent).subtasks)
             THEN <<Sel(s.index, Append(parent.path, k + 1))>>
             ELSE NextSiblingUpwards(ts, parent)

\* the node that follows the node s in pre-order: its first child, or else
\* its next sibling upwards; None after the last node
Following(ts, s) ==
    IF NodeAt(ts, s).subtasks # <<>>
    THEN <<Sel(s.index, Append(s.path, 0))>>
    ELSE NextSiblingUpwards(ts, s)

\* the nodes that s follows: one node, or none when s is the first node
Preceding(ts, s) == { p \in Nodes(ts) : Following(ts, p) = <<s>> }

\* C32: from a selection that names a node, move_selection_down selects
\* the node that follows it in pre-order and move_selection_up the node it
\* follows; at the last and at the first node the selection stays; the
\* forest is unchanged
C32_MovesFollowPreOrder ==
    /\ Moved("move_selection_down")
        => /\ tasks = last.tasks
           /\ SelNow = IF Following(tasks, SelBefore) # <<>>
                       THEN Following(tasks, SelBefore)[1]
                       ELSE SelBefore
    /\ Moved("move_selection_up")
        => /\ tasks = last.tasks
           /\ IF Preceding(tasks, SelBefore) # {}
              THEN Preceding(tasks, SelBefore) = {SelNow}
              ELSE SelNow = SelBefore /\ SelBefore = Sel(0, <<>>)

\* C32 witness: move_selection_down has left a node two levels deep, the
\* last of its root task, for the next root task
C32_Witness ==
    /\ Moved("move_selection_down")
    /\ Len(last.path) = 2
    /\ selected_index = last.index + 1
    /\ selected_path = <<>>


\* the nodes of a task in pre-order: the task, then each subtask's nodes
RECURSIVE PreOrderBelow(_, _, _)
PreOrderBelow(task, index, path) ==
    <<Sel(index, path)>>
    \o Flatten([i \in 1..Len(task.subtasks) |->
                    PreOrderBelow(task.subtasks[i], index,
                                  Append(path, i - 1))])

\* the nodes of a forest in pre-order
PreOrder(ts) ==
    Flatten([i \in 1..Len(ts) |-> PreOrderBelow(ts[i], i - 1, <<>>)])

\* C33: on the forest, get_flat_index maps the nodes one to one onto
\* 0..N-1, N the number of nodes: the flat index of a node is the number of
\* nodes before it in pre-order; find_item_at_flat_index is its inverse on
\* 0..N-1, and None from N on
C33_FlatIndexBijection ==
    LET nodes == PreOrder(tasks)
        N == Len(nodes)
    IN  /\ { nodes[k] : k \in 1..N } = Nodes(tasks)
        /\ N = Cardinality(Nodes(tasks))
        /\ \A k \in 1..N :
                /\ get_flat_index(tasks, nodes[k].index, nodes[k].path)
                        = <<k - 1>>
                /\ find_item_at_flat_index(tasks, k - 1) = <<nodes[k]>>
        /\ \A k \in N..(N + 2) : find_item_at_flat_index(tasks, k) = <<>>

\* C33 witness: a forest of two root tasks, the first with a subtask that
\* has a subtask, after a move that used both functions
C33_Witness ==
    /\ Len(tasks) = 2
    /\ Sel(0, <<0, 0>>) \in Nodes(tasks)
    /\ last.op = "move_selection_down"
    /\ get_flat_index(tasks, 1, <<>>) = <<3>>
    /\ find_item_at_flat_index(tasks, 2) = <<Sel(0, <<0, 0>>)>>


\* C34: pause() on a Stopped or Paused timer changes nothing; toggle() does
\* what start() does on a Stopped or Paused timer and what pause() does on
\* a Running one, so that a Paused timer toggled twice, at any two clock
\* readings, is Paused again
C34_PauseAndToggle ==
    /\ (last.op = "pause" /\ last.pomodoro.timer_state # "Running")
        => pomodoro = last.pomodoro
    /\ last.op = "toggle"
        => /\ pomodoro = IF last.pomodoro.timer_state = "Running"
                         THEN pause(last.pomodoro, last.now)
                         ELSE start(last.pomodoro, last.now)
           /\ IF last.pomodoro.timer_state = "Running"
              THEN pomodoro = [last.pomodoro EXCEPT
                                    !.timer_state = "Paused",
                                    !.start_time = <<>>,
                                    !.remaining = TimeLeft(last.pomodoro,
                                                           last.now)]
              ELSE pomodoro = [last.pomodoro EXCEPT
                                    !.timer_state = "Running",
                                    !.start_time = <<last.now>>]
    /\ pomodoro.timer_state = "Paused"
        => \A d \in Advances \cup {0} :
                toggle(toggle(pomodoro, now), now + d).timer_state = "Paused"

\* C34 witness: toggle() has paused a timer that ran for some time, and
\* the timer it paused had been started by toggle() from Paused
C34_Witness ==
    /\ last.op = "toggle"
    /\ last.pomodoro.timer_state = "Running"
    /\ last.pomodoro.start_time # <<>>
    /\ last.pomodoro.start_time[1] > 0
    /\ last.pomodoro.remaining < last.pomodoro.duration
    /\ now > last.pomodoro.start_time[1]
    /\ pomodoro.timer_state = "Paused"


\* the last command was an operation of the timer
TimerOps == {"start", "pause", "toggle", "reset", "update"}

\* C35: among start, pause, toggle, reset and update, only an update()
\* that reports a completed Work phase changes the cycle counter, and it
\* adds 1; every other one, an update() that returns false and the
\* completion of a break included, leaves it as it was; so it never
\* decreases
C35_CyclesChangeOnlyOnWorkCompletion ==
    last.op \in TimerOps
        => /\ pomodoro.cycles >= last.pomodoro.cycles
           /\ IF /\ last.op = "update"
                 /\ last.ret = "true"
                 /\ last.pomodoro.state = "Work"
              THEN pomodoro.cycles = last.pomodoro.cycles + 1
              ELSE pomodoro.cycles = last.pomodoro.cycles

\* C35 witness: a reset, after a Work phase and a break were completed, has
\* kept the counter
C35_Witness ==
    /\ last.op = "reset"
    /\ last.pomodoro.timer_state = "Running"
    /\ last.pomodoro.cycles > MaxSavedCycles
    /\ pomodoro.cycles = last.pomodoro.cycles


\* the timer the last command was given has a phase and a duration that
\* disagree, the duration being one of the three fixed values
Disagreed ==
    /\ last.pomodoro.duration \in {Minutes(25), Minutes(5), Minutes(15)}
    /\ last.pomodoro.duration # PhaseDuration(last.pomodoro.state)

\* C36 (as claimed): reset() and sync_state_with_duration(), given a timer
\* whose phase and duration disagree, keep the duration and leave the phase
\* that has this duration
C36_RepairKeepsDuration ==
    (last.op \in {"reset", "sync_state_with_duration"} /\ Disagreed)
        => /\ pomodoro.duration = last.pomodoro.duration
           /\ PhaseDuration(pomodoro.state) = pomodoro.duration


\* C37 (as claimed): in every session state, the one right after load_state
\* of a snapshot saved while the timer was Running included, the run status
\* is Running exactly when the start anchor is set
C37_RunningIffAnchored ==
    pomodoro.timer_state = "Running" <=> pomodoro.start_time # <<>>


\* C38 (as claimed): in every timer state, those restored by load_state from
\* what save_state wrote included, the stored remaining time is at most the
\* duration of the current phase
C38_RemainingWithinPhase ==
    pomodoro.remaining <= PhaseDuration(pomodoro.state)


\* the mode the step finds is one of the two confirmation modes
Confirming == input_mode.kind \in {"ConfirmingDelete", "ConfirmingClear"}

\* the ids of the selected node and of its descendants
SelectedSubtreeIds ==
    IF SelNow \in Nodes(tasks)
    THEN { n.id : n \in TaskInfo(NodeAt(tasks, SelNow)) }
    ELSE {}

InfoOf(ts, id) == { n \in ForestInfo(ts) : n.id = id }

\* C40: while the mode is AddingSubtask(parent_id), parent_id is the id of
\* the selected node and no key changes the selection or parent_id; the tree
\* changes only on Enter, which appends the new subtask, with the id the
\* counter had and the trimmed buffer as title, as the last child of the
\* node whose id is parent_id and leaves every other node as it was; the
\* mode is entered only by 's' in Normal mode on a selection that resolves,
\* with the id of the selected node, so 's' on an empty forest leaves the
\* mode Normal
C40_SubtaskGoesUnderParent ==
    [][Dispatched
        => /\ input_mode.kind = "AddingSubtask"
                => /\ SelNow \in Nodes(tasks)
                   /\ input_mode.parent_id = <<NodeAt(tasks, SelNow).id>>
                   /\ UNCHANGED <<selected_index, selected_path>>
                   /\ input_mode' \in {input_mode, Mode("Normal")}
                   /\ (tasks' # tasks)
                        => /\ event'.key = "Enter"
                           /\ last'.op = "add_subtask"
                           /\ last'.ret = "true"
                   /\ (event'.key = "Enter" /\ last'.ret = "true"
                            /\ last'.op = "add_subtask")
                        => LET parent == NodeAt(tasks, SelNow)
                               grown == [Info(parent) EXCEPT
                                           !.kids = Append(@, next_task_id)]
                               added == [id |-> next_task_id,
                                         title |-> Trim(input_buffer),
                                         completed |-> FALSE,
                                         kids |-> <<>>]
                           IN  /\ InfoOf(tasks', input_mode.parent_id[1])
                                    = {grown}
                               /\ ForestInfo(tasks')
                                    = (ForestInfo(tasks) \ {Info(parent)})
                                        \cup {grown, added}
                               /\ input_mode' = Mode("Normal")
           /\ (input_mode.kind # "AddingSubtask"
                    /\ input_mode'.kind = "AddingSubtask")
                => /\ input_mode.kind = "Normal"
                   /\ event'.key = "s"
                   /\ SelNow \in Nodes(tasks)
                   /\ input_mode' = AddingSubtask(NodeAt(tasks, SelNow).id)
           /\ (input_mode.kind = "Normal" /\ event'.key = "s"
                    /\ tasks = <<>>)
                => input_mode' = Mode("Normal")
    ]_vars

\* C40 witness: 's' was pressed on subtask 2 of a tree of three tasks, and
\* Enter has appended the new task under it
C40_Witness ==
    /\ pc = "update"
    /\ event.key = "Enter"
    /\ event.input_mode = AddingSubtask(2)
    /\ last.op = "add_subtask"
    /\ last.ret = "true"
    /\ last.path # <<>>
    /\ Cardinality(Ids(last.tasks)) = 3
    /\ \E n \in InfoOf(tasks, 2) : n.kids = <<last.next_id>>
    /\ input_mode = Mode("Normal")

====
